---- MODULE Spec2Model ----
(***************************************************************************)
(* Loyalty-points service (gophermart): the ledger store (orders, balance, *)
(* withdrawal tables in PostgreSQL, READ COMMITTED), the storage           *)
(* operations on it, and the accrual Updater that polls the accrual        *)
(* authority and settles orders.                                           *)
(*                                                                         *)
(* Monetary amounts (double precision in the schema, float64 in Go) are    *)
(* modelled as integers in minor units; floating-point rounding is outside *)
(* the model.                                                              *)
(*                                                                         *)
(* A transaction's uncommitted writes are kept in the state of the process *)
(* that runs it and become visible in the tables at its commit step.  An   *)
(* UPDATE of a balance row takes that row's lock until the transaction     *)
(* ends; a second writer waits (its action is disabled) and then sees the  *)
(* committed row, as READ COMMITTED does.  A plain SELECT takes no lock.   *)
(***************************************************************************)
EXTENDS Integers, Sequences, FiniteSets, TLC

\* ---------------------------------------------------------------- bounds
MaxCycles == 2

\* ---------------------------------------------------------------- domains
UserIDs == {1, 2}
OrderIDs == {1, 2}
WithdrawNumbers == {1, 2}
\* the clients of the API: each makes one storage call, and they are numbered
\* in the order their calls start
Clients == {1, 2}
Sums == {-1, 1, 2}
Amounts == {-1, 1}
Accruals == {-1, 0, 1, 2}

StatusNew == "NEW"
StatusRegistered == "REGISTERED"
StatusInvalid == "INVALID"
StatusProcessing == "PROCESSING"
StatusProcessed == "PROCESSED"

ErrNotEnoughBalance == "ErrNotEnoughBalance"
ErrDuplicateOrder == "ErrDuplicateOrder"
ErrOrderAlreadyPlaced == "ErrOrderAlreadyPlaced"
ErrCheckViolation == "pg:23514"
ErrUniqueViolation == "pg:23505"
Ok == "nil"
NoResult == "none"

\* Statuses the authority may send: the four of the protocol and one the
\* switch in Updater.update has no case for.
AuthStatuses == {StatusRegistered, StatusInvalid, StatusProcessing, StatusProcessed, "UNKNOWN"}

\* getOrderStatus returns (nil, err) or (&info, nil)
NilInfo == [Status |-> "nil", Accrual |-> 0]
OrderInfos == [Status : AuthStatuses, Accrual : Accruals]

\* holders of a balance row's lock: no transaction, a client's transaction
\* (the client's number), the transaction of UpdateBalanceFromOrders
NoLock == 0
UpdaterTx == Cardinality(Clients) + 1

VARIABLES
    users,          \* ids of the rows of table users
    orders,         \* table orders: number -> [user_id, status, accrual]
    balance,        \* table balance: user_id -> [current, withdrawn]
    withdrawal,     \* table withdrawal: set of [number, user_id, sum]
    rowLock,        \* balance row of a user -> transaction holding its lock
    cpc,            \* per client: position in its storage call
    ctx,            \* per client: arguments and uncommitted writes of its call
    res,            \* per client: what its last storage call returned
    running,        \* Updater: u.ctx not yet cancelled
    upc,            \* Updater goroutine: position
    cycOrders,      \* Updater.update: orders
    ordersInfo,     \* Updater.update: ordersInfo
    queried,        \* Updater.update: slots whose goroutine called wg.Done
    idx,            \* Updater.update: index of the classification loop
    batch,          \* Updater.update: ordersWithBalanceUpdate
    stx,            \* UpdateBalanceFromOrders: its transaction
    cycles,         \* number of update() calls that fetched a non-empty set
    http,           \* getOrderStatus: the request the client is executing
    tickerC,        \* updateOrders: ticks waiting in ticker.C, a channel of capacity 1
    luhn,           \* IsValidLuhn: the string it is called with and what it returned
    hist            \* history: what committed, for stating the properties

dbVars == <<users, orders, balance, withdrawal, rowLock>>
clientVars == <<cpc, ctx, res>>
updVars == <<running, upc, cycOrders, ordersInfo, queried, idx, batch, stx, cycles>>
vars == <<users, orders, balance, withdrawal, rowLock, cpc, ctx, res,
          running, upc, cycOrders, ordersInfo, queried, idx, batch, stx, cycles, http,
          tickerC, luhn, hist>>

\* ---------------------------------------------------------------- helpers
Min(S) == CHOOSE x \in S : \A y \in S : x <= y

RECURSIVE SortedSeq(_)
SortedSeq(S) == IF S = {} THEN <<>> ELSE <<Min(S)>> \o SortedSeq(S \ {Min(S)})

\* ---------------------------------------------------------------- schema
\* mutant: table balance without its check constraints
NoBalanceChecks(row) == TRUE

\* balance: check (current >= 0.0), check (withdrawn >= 0)
BalanceChecks(row) == row.current >= 0 /\ row.withdrawn >= 0

\* mutant: table withdrawal without its check constraint
NoWithdrawalChecks(row) == TRUE

\* withdrawal: check (sum >= 0.0)
WithdrawalChecks(row) == row.sum >= 0

\* mutant: table withdrawal without the unique index on number
NumberNeverTaken(tbl, n) == FALSE

\* withdrawal.number is unique
NumberTaken(tbl, n) == \E w \in tbl : w.number = n

\* function_create_user_relations: insert into balance (user_id) values (new.id),
\* current and withdrawn default 0
NewBalanceRow == [current |-> 0, withdrawn |-> 0]

\* ---------------------------------------------------------------- statements
\* select current, withdrawn from balance where user_id = $1, scanned into a
\* zero BalanceInfo when there is a row
GetUserBalance(tbl, u) == IF u \in DOMAIN tbl THEN tbl[u] ELSE NewBalanceRow

\* mutant: update balance set current = current-$1
SetBalanceCurrentOnly(row, sum) == [row EXCEPT !.current = @ - sum]

\* update balance set current = current-$1, withdrawn=withdrawn+$1
SetBalance(row, sum) == [current |-> row.current - sum, withdrawn |-> row.withdrawn + sum]

\* mutant: update balance set current = $1
AddBalanceSets(row, amount) == [row EXCEPT !.current = amount]

\* update balance set current = current+$1
AddBalanceStmt(row, amount) == [row EXCEPT !.current = @ + amount]

\* update orders set status=$1, accrual=$2 where number=$3
UpdateOrderStmt(tbl, o) ==
    IF o.ID \in DOMAIN tbl
    THEN [tbl EXCEPT ![o.ID] = [user_id |-> @.user_id, status |-> o.Status, accrual |-> o.Accrual]]
    ELSE tbl

\* mutant: the where clause names 'NEW' alone
UnfinishedOnlyNew == {StatusNew}

\* select ... from orders where status in ('NEW', 'PROCESSING'), as the slice
\* the scan loop builds (rows taken in ascending order of number)
UnfinishedStatuses == {StatusNew, StatusProcessing}

\* mutant: the query without its where clause
GetAllOrders(tbl) ==
    LET ids == SortedSeq(DOMAIN tbl)
    IN [i \in DOMAIN ids |->
          [ID |-> ids[i], UserID |-> tbl[ids[i]].user_id,
           Status |-> tbl[ids[i]].status, Accrual |-> tbl[ids[i]].accrual]]

GetUnfinishedOrders(tbl) ==
    LET ids == SortedSeq({n \in DOMAIN tbl : tbl[n].status \in UnfinishedStatuses})
    IN [i \in DOMAIN ids |->
          [ID |-> ids[i], UserID |-> tbl[ids[i]].user_id,
           Status |-> tbl[ids[i]].status, Accrual |-> tbl[ids[i]].accrual]]

\* ---------------------------------------------------------------- history
\* credited[o]: how many committed balance credits included order o's accrual
\* credits[u], debits[u]: sums of the amounts of the committed credit and
\*   withdrawal operations on u's balance
\* start: credits when the running cycle fetched its orders
\* fetched: the statuses of the orders of the running cycle as it fetched them
\* prev: the orders the last finished cycle had a PROCESSED verdict for, and
\*   whether its UpdateBalanceFromOrders returned nil

InitHist ==
    [credited |-> [o \in OrderIDs |-> 0],
     credits |-> [u \in UserIDs |-> 0],
     debits |-> [u \in UserIDs |-> 0],
     start |-> [u \in UserIDs |-> 0],
     fetched |-> <<>>,
     prev |-> [processed |-> {}, ok |-> FALSE]]

\* ---------------------------------------------------------------- Init
IdleCall == [op |-> "none", user |-> 0, number |-> 0, sum |-> 0, cur |-> 0,
             newBal |-> NewBalanceRow, raced |-> FALSE]

\* the record of a call that has returned
Ended(c) == [IdleCall EXCEPT !.raced = c.raced]

\* IsValidLuhn has not been called
NoNumber == [number |-> <<>>, called |-> FALSE, result |-> FALSE]

NoTx == [state |-> "none", stmts |-> <<>>, done |-> {}, newRows |-> <<>>]

\* no request executed yet: the state of a query that getOrderStatus starts
NoRequest == [pc |-> "send", attempt |-> 0, now |-> 0, at |-> 0, readyAt |-> 0,
              resp |-> [code |-> 0, retryAfter |-> 0, body |-> "none"], result |-> "none"]

Init ==
    /\ users = {}
    /\ orders = <<>>
    /\ balance = <<>>
    /\ withdrawal = {}
    /\ rowLock = [u \in UserIDs |-> NoLock]
    /\ cpc = [p \in Clients |-> "idle"]
    /\ ctx = [p \in Clients |-> IdleCall]
    /\ res = [p \in Clients |-> NoResult]
    /\ running = TRUE
    /\ upc = "select"
    /\ cycOrders = <<>>
    /\ ordersInfo = <<>>
    /\ queried = <<>>
    /\ idx = 0
    /\ batch = <<>>
    /\ stx = NoTx
    /\ cycles = 0
    /\ http = NoRequest
    /\ tickerC = 0
    /\ luhn = NoNumber
    /\ hist = InitHist

\* the API receives the call of client p: the calls before it have started
Arrives(p) == cpc[p] = "idle" /\ \A q \in Clients : q < p => cpc[q] # "idle"

\* ---------------------------------------------------------------- users
\* mutant: table users without the trigger create_user_data
AddUserNoTrigger(u) ==
    /\ u \notin users
    /\ users' = users \cup {u}
    /\ UNCHANGED <<orders, balance, withdrawal, rowLock, clientVars, updVars, hist>>
    /\ UNCHANGED <<http, tickerC, luhn>>

\* pgxStorage.AddUser: insert into users; the trigger create_user_data inserts
\* the user's balance row in the same transaction
AddUser(u) ==
    /\ u \notin users
    /\ users' = users \cup {u}
    /\ balance' = (u :> NewBalanceRow) @@ balance
    /\ UNCHANGED <<orders, withdrawal, rowLock, clientVars, updVars, hist>>
    /\ UNCHANGED <<http, tickerC, luhn>>

\* ---------------------------------------------------------------- orders
\* mutant: the comparison of the owner with the caller is inverted
AddOrderResultSwapped(tbl, u, o) ==
    IF o \notin DOMAIN tbl THEN Ok
    ELSE IF tbl[o].user_id # u THEN ErrOrderAlreadyPlaced
    ELSE ErrDuplicateOrder

\* what pgxStorage.AddOrder returns for (userID, orderID)
AddOrderResult(tbl, u, o) ==
    IF o \notin DOMAIN tbl THEN Ok
    ELSE IF tbl[o].user_id = u THEN ErrOrderAlreadyPlaced
    ELSE ErrDuplicateOrder

\* insert into orders (number, user_id): status defaults to 'NEW', accrual to 0
NewOrderRow(u) == [user_id |-> u, status |-> StatusNew, accrual |-> 0]

\* mutant: an insert that replaces the row of an existing number
AddOrderReplaces(p, u, o) ==
    /\ Arrives(p)
    /\ u \in users
    /\ cpc' = [cpc EXCEPT ![p] = "done"]
    /\ res' = [res EXCEPT ![p] = Ok]
    /\ orders' = (o :> NewOrderRow(u)) @@ orders
    /\ UNCHANGED <<users, balance, withdrawal, rowLock, ctx, updVars, hist>>
    /\ UNCHANGED <<http, tickerC, luhn>>

\* pgxStorage.AddOrder, called by apiAddUserOrder for an authorized user
AddOrder(p, u, o) ==
    /\ Arrives(p)
    /\ u \in users
    /\ cpc' = [cpc EXCEPT ![p] = "done"]
    /\ res' = [res EXCEPT ![p] = AddOrderResult(orders, u, o)]
    /\ orders' = IF o \in DOMAIN orders THEN orders ELSE (o :> NewOrderRow(u)) @@ orders
    /\ UNCHANGED <<users, balance, withdrawal, rowLock, ctx, updVars, hist>>
    /\ UNCHANGED <<http, tickerC, luhn>>

\* ---------------------------------------------------------------- Withdraw
\* mutant: the test looks at the balance alone
NotEnoughIgnoresSum(current, sum) == current < 0

\* if info.Current-sum < 0 { return ErrNotEnoughBalance }
NotEnough(current, sum) == current - sum < 0

\* numbers inserted into withdrawal by transactions of other clients that
\* have not ended: an insert of the same number waits for them
PendingNumbers(p) ==
    {ctx[q].number : q \in {c \in Clients \ {p} : cpc[c] \in {"setbal", "commit"}}}

\* two Withdraw calls for one user, with different numbers, have both read the
\* balance, each amount is covered by what was read, and the two together are
\* not
Races(p, u, n, s, cur) ==
    \E q \in Clients \ {p} :
        /\ cpc[q] \in {"insert", "setbal", "commit"}
        /\ ctx[q].user = u
        /\ ctx[q].number # n
        /\ ctx[q].cur = cur
        /\ s > 0 /\ ctx[q].sum > 0
        /\ ctx[q].sum + s > cur

\* Withdraw: Begin, the GetUserBalance query and the balance test
WithdrawRead(p, u, n, s) ==
    /\ Arrives(p)
    /\ u \in users
    /\ LET info == GetUserBalance(balance, u)
           raced == Races(p, u, n, s, info.current)
       IN IF NotEnough(info.current, s)
          THEN /\ res' = [res EXCEPT ![p] = ErrNotEnoughBalance]
               /\ ctx' = [ctx EXCEPT ![p] = IdleCall]
               /\ cpc' = [cpc EXCEPT ![p] = "done"]
          ELSE /\ res' = [res EXCEPT ![p] = NoResult]
               /\ ctx' = [q \in Clients |->
                            IF q = p
                            THEN [IdleCall EXCEPT !.op = "Withdraw", !.user = u, !.number = n,
                                                  !.sum = s, !.cur = info.current, !.raced = raced]
                            ELSE IF raced /\ cpc[q] \in {"insert", "setbal", "commit"}
                                    /\ ctx[q].user = u
                                 THEN [ctx[q] EXCEPT !.raced = TRUE]
                                 ELSE ctx[q]]
               /\ cpc' = [cpc EXCEPT ![p] = "insert"]
    /\ UNCHANGED <<dbVars, updVars, hist>>
    /\ UNCHANGED <<http, tickerC, luhn>>

\* tx.Exec(AddWithdrawal): the check on sum, then the unique index on number
WithdrawInsert(p) ==
    /\ cpc[p] = "insert"
    /\ LET row == [number |-> ctx[p].number, user_id |-> ctx[p].user, sum |-> ctx[p].sum]
       IN IF ~WithdrawalChecks(row)
          THEN /\ res' = [res EXCEPT ![p] = ErrCheckViolation]
               /\ cpc' = [cpc EXCEPT ![p] = "done"]
          ELSE /\ ctx[p].number \notin PendingNumbers(p)
               /\ IF NumberTaken(withdrawal, ctx[p].number)
                  THEN /\ res' = [res EXCEPT ![p] = ErrUniqueViolation]
                       /\ cpc' = [cpc EXCEPT ![p] = "done"]
                  ELSE /\ res' = res
                       /\ cpc' = [cpc EXCEPT ![p] = "setbal"]
    /\ ctx' = [ctx EXCEPT ![p] = IF cpc'[p] = "done" THEN Ended(ctx[p]) ELSE ctx[p]]
    /\ UNCHANGED <<dbVars, updVars, hist>>
    /\ UNCHANGED <<http, tickerC, luhn>>

\* tx.Exec(SetBalance): waits for the row lock, updates the committed row,
\* the checks of table balance apply to the new row
WithdrawSetBalance(p) ==
    /\ cpc[p] = "setbal"
    /\ LET u == ctx[p].user
           row == SetBalance(balance[u], ctx[p].sum)
       IN /\ rowLock[u] = NoLock
          /\ IF BalanceChecks(row)
             THEN /\ rowLock' = [rowLock EXCEPT ![u] = p]
                  /\ ctx' = [ctx EXCEPT ![p].newBal = row]
                  /\ cpc' = [cpc EXCEPT ![p] = "commit"]
                  /\ res' = res
             ELSE /\ rowLock' = rowLock
                  /\ ctx' = [ctx EXCEPT ![p] = Ended(ctx[p])]
                  /\ cpc' = [cpc EXCEPT ![p] = "done"]
                  /\ res' = [res EXCEPT ![p] = ErrCheckViolation]
    /\ UNCHANGED <<users, orders, balance, withdrawal, updVars, hist>>
    /\ UNCHANGED <<http, tickerC, luhn>>

\* tx.Commit: the withdrawal row and the balance row become visible
WithdrawCommit(p) ==
    /\ cpc[p] = "commit"
    /\ LET u == ctx[p].user
       IN /\ withdrawal' = withdrawal \cup
                 {[number |-> ctx[p].number, user_id |-> u, sum |-> ctx[p].sum]}
          /\ balance' = [balance EXCEPT ![u] = ctx[p].newBal]
          /\ rowLock' = [rowLock EXCEPT ![u] = NoLock]
          /\ hist' = [hist EXCEPT !.debits[u] = @ + ctx[p].sum]
    /\ cpc' = [cpc EXCEPT ![p] = "done"]
    /\ res' = [res EXCEPT ![p] = Ok]
    /\ ctx' = [ctx EXCEPT ![p] = Ended(ctx[p])]
    /\ UNCHANGED <<users, orders, updVars>>
    /\ UNCHANGED <<http, tickerC, luhn>>

\* ---------------------------------------------------------------- AddBalance
\* AddBalance: Begin and tx.Exec(AddBalance), which waits for the row lock
AddBalanceExec(p, u, a) ==
    /\ Arrives(p)
    /\ u \in users
    /\ rowLock[u] = NoLock
    /\ LET row == AddBalanceStmt(balance[u], a)
       IN IF BalanceChecks(row)
          THEN /\ rowLock' = [rowLock EXCEPT ![u] = p]
               /\ ctx' = [ctx EXCEPT ![p] = [IdleCall EXCEPT !.op = "AddBalance", !.user = u,
                                              !.sum = a, !.newBal = row]]
               /\ cpc' = [cpc EXCEPT ![p] = "addcommit"]
               /\ res' = [res EXCEPT ![p] = NoResult]
          ELSE /\ rowLock' = rowLock
               /\ ctx' = [ctx EXCEPT ![p] = IdleCall]
               /\ cpc' = [cpc EXCEPT ![p] = "done"]
               /\ res' = [res EXCEPT ![p] = ErrCheckViolation]
    /\ UNCHANGED <<users, orders, balance, withdrawal, updVars, hist>>
    /\ UNCHANGED <<http, tickerC, luhn>>

\* AddBalance: tx.Commit
AddBalanceCommit(p) ==
    /\ cpc[p] = "addcommit"
    /\ LET u == ctx[p].user
       IN /\ balance' = [balance EXCEPT ![u] = ctx[p].newBal]
          /\ rowLock' = [rowLock EXCEPT ![u] = NoLock]
          /\ hist' = [hist EXCEPT !.credits[u] = @ + ctx[p].sum]
    /\ cpc' = [cpc EXCEPT ![p] = "done"]
    /\ res' = [res EXCEPT ![p] = Ok]
    /\ ctx' = [ctx EXCEPT ![p] = IdleCall]
    /\ UNCHANGED <<users, orders, withdrawal, updVars>>
    /\ UNCHANGED <<http, tickerC, luhn>>

\* ---------------------------------------------------------------- Updater
\* what the authority may answer with 200: a PROCESSED verdict with any
\* accrual, any other status with accrual 0 or 1
Verdicts == {v \in OrderInfos : v.Status = StatusProcessed \/ v.Accrual \in {0, 1}}

\* mutant: the calls do not look at the context
CallOutcomesAlways == {TRUE, FALSE}

\* a store call or a request made with u.ctx fails once the context is
\* cancelled; before that it may succeed or fail
CallOutcomes == IF running THEN {TRUE, FALSE} ELSE {FALSE}

\* mutant: the PROCESSED case does not copy the accrual
ClassifyDropsAccrual(o, info) ==
    CASE info.Status = StatusRegistered -> [o EXCEPT !.Status = StatusProcessing]
      [] info.Status = StatusInvalid -> [o EXCEPT !.Status = StatusInvalid]
      [] info.Status = StatusProcessing -> [o EXCEPT !.Status = StatusProcessing]
      [] info.Status = StatusProcessed -> [o EXCEPT !.Status = StatusProcessed]
      [] OTHER -> o

\* mutant: REGISTERED is taken for the status of a new order, and the
\* accrual is copied whatever the status
ClassifyRegisteredNew(o, info) ==
    CASE info.Status = StatusRegistered -> [o EXCEPT !.Status = StatusNew, !.Accrual = info.Accrual]
      [] info.Status = StatusInvalid -> [o EXCEPT !.Status = StatusInvalid, !.Accrual = info.Accrual]
      [] info.Status = StatusProcessing -> [o EXCEPT !.Status = StatusProcessing, !.Accrual = info.Accrual]
      [] info.Status = StatusProcessed ->
            [o EXCEPT !.Status = StatusProcessed, !.Accrual = info.Accrual]
      [] OTHER -> o

\* mutant: a status the switch has no case for makes the order INVALID
ClassifyUnknownInvalid(o, info) ==
    CASE info.Status = StatusRegistered -> [o EXCEPT !.Status = StatusProcessing]
      [] info.Status = StatusInvalid -> [o EXCEPT !.Status = StatusInvalid]
      [] info.Status = StatusProcessing -> [o EXCEPT !.Status = StatusProcessing]
      [] info.Status = StatusProcessed ->
            [o EXCEPT !.Status = StatusProcessed, !.Accrual = info.Accrual]
      [] OTHER -> [o EXCEPT !.Status = StatusInvalid]

\* the switch on info.Status in Updater.update
Classify(o, info) ==
    CASE info.Status = StatusRegistered -> [o EXCEPT !.Status = StatusProcessing]
      [] info.Status = StatusInvalid -> [o EXCEPT !.Status = StatusInvalid]
      [] info.Status = StatusProcessing -> [o EXCEPT !.Status = StatusProcessing]
      [] info.Status = StatusProcessed ->
            [o EXCEPT !.Status = StatusProcessed, !.Accrual = info.Accrual]
      [] OTHER -> o

\* mutant: one failed query makes the loop skip every slot
FailedAny(info) == \E i \in DOMAIN ordersInfo : ordersInfo[i] = NilInfo

\* if info == nil { continue }
Failed(info) == info = NilInfo

\* mutant: every verdict goes into the batch of the settlement
NeedsBalanceUpdateAny(info) == TRUE

\* if info.Status == storage.StatusProcessed { append to ordersWithBalanceUpdate }
NeedsBalanceUpdate(info) == info.Status = StatusProcessed

\* the orders the running cycle holds a PROCESSED verdict for
CurrProcessed ==
    {cycOrders[i].ID : i \in {j \in DOMAIN cycOrders : ordersInfo[j].Status = StatusProcessed}}

\* update() returns: the goroutine is back in the select of updateOrders
Return(ok) ==
    /\ upc' = "select"
    /\ cycOrders' = <<>>
    /\ ordersInfo' = <<>>
    /\ queried' = <<>>
    /\ idx' = 0
    /\ batch' = <<>>
    /\ stx' = NoTx

\* mutant: Stop flips the state of the Updater
StopToggles ==
    /\ running' = ~running
    /\ UNCHANGED <<dbVars, clientVars, upc, cycOrders, ordersInfo, queried, idx, batch,
                   stx, cycles, hist>>
    /\ UNCHANGED <<http, tickerC, luhn>>

\* Updater.Stop: u.ctxCancel(), which does nothing when called again
Stop ==
    /\ running' = FALSE
    /\ UNCHANGED <<dbVars, clientVars, upc, cycOrders, ordersInfo, queried, idx, batch,
                   stx, cycles, hist>>
    /\ UNCHANGED <<http, tickerC, luhn>>

\* updateOrders: case <-u.ctx.Done()
Exit ==
    /\ upc = "select"
    /\ ~running
    /\ upc' = "exited"
    /\ UNCHANGED <<dbVars, clientVars, running, cycOrders, ordersInfo, queried, idx,
                   batch, stx, cycles, hist>>
    /\ UNCHANGED <<http, tickerC, luhn>>

\* mutant: every tick starts update() in a goroutine of its own
TickOverlaps ==
    /\ cycles < MaxCycles
    /\ cycles' = cycles + 1
    /\ \E ok \in CallOutcomes :
        LET os == GetUnfinishedOrders(orders)
        IN IF ~ok \/ Len(os) = 0
           THEN UNCHANGED <<upc, cycOrders, ordersInfo, queried, idx, batch, stx, hist>>
           ELSE /\ upc' = "fanout"
                /\ cycOrders' = os
                /\ ordersInfo' = [i \in DOMAIN os |-> NilInfo]
                /\ queried' = [i \in DOMAIN os |-> FALSE]
                /\ hist' = [hist EXCEPT !.start = hist.credits,
                                         !.fetched = [i \in DOMAIN os |-> os[i].Status]]
                /\ UNCHANGED <<idx, batch, stx>>
    /\ tickerC' = 0
    /\ UNCHANGED <<dbVars, clientVars, running>>
    /\ UNCHANGED <<http, luhn>>

\* updateOrders: case <-ticker.C, which takes the tick waiting in the channel
\* or the one the ticker sends now, and update() up to the start of the fan-out
Tick ==
    /\ upc = "select"
    /\ cycles < MaxCycles
    /\ cycles' = cycles + 1
    /\ \E ok \in CallOutcomes :
        LET os == GetUnfinishedOrders(orders)
        IN IF ~ok \/ Len(os) = 0
           THEN UNCHANGED <<upc, cycOrders, ordersInfo, queried, idx, batch, stx, hist>>
           ELSE /\ upc' = "fanout"
                /\ cycOrders' = os
                /\ ordersInfo' = [i \in DOMAIN os |-> NilInfo]
                /\ queried' = [i \in DOMAIN os |-> FALSE]
                /\ hist' = [hist EXCEPT !.start = hist.credits,
                                         !.fetched = [i \in DOMAIN os |-> os[i].Status]]
                /\ UNCHANGED <<idx, batch, stx>>
    /\ tickerC' = 0
    /\ UNCHANGED <<dbVars, clientVars, running>>
    /\ UNCHANGED <<http, luhn>>

\* the ticker fires while update() runs: the tick waits in ticker.C for the
\* goroutine to come back to the select; a tick that finds one waiting is
\* dropped
TickerFires ==
    /\ upc \notin {"select", "exited"}
    /\ tickerC' = 1
    /\ UNCHANGED <<dbVars, clientVars, updVars, hist>>
    /\ UNCHANGED <<http, luhn>>

\* mutant: a request that does not return when the context is cancelled
QueryIgnoresCancel(i, info) ==
    /\ upc = "fanout"
    /\ i \in DOMAIN cycOrders
    /\ ~queried[i]
    /\ running
    /\ ordersInfo' = [ordersInfo EXCEPT ![i] = info]
    /\ queried' = [queried EXCEPT ![i] = TRUE]
    /\ UNCHANGED <<dbVars, clientVars, running, upc, cycOrders, idx, batch, stx, cycles, hist>>
    /\ UNCHANGED <<http, tickerC, luhn>>

\* mutant: the goroutines share the loop variable and write the slot after
\* their own, the last one the first
QueryWrongSlot(i, info) ==
    /\ upc = "fanout"
    /\ i \in DOMAIN cycOrders
    /\ ~queried[i]
    /\ info = NilInfo \/ running
    /\ ordersInfo' = [ordersInfo EXCEPT ![(i % Len(cycOrders)) + 1] = info]
    /\ queried' = [queried EXCEPT ![i] = TRUE]
    /\ UNCHANGED <<dbVars, clientVars, running, upc, cycOrders, idx, batch, stx, cycles, hist>>
    /\ UNCHANGED <<http, tickerC, luhn>>

\* the goroutine of slot index: getOrderStatus, then ordersInfo[index] = info
\* unless it failed
Query(i, info) ==
    /\ upc = "fanout"
    /\ i \in DOMAIN cycOrders
    /\ ~queried[i]
    /\ info = NilInfo \/ running
    /\ ordersInfo' = [ordersInfo EXCEPT ![i] = info]
    /\ queried' = [queried EXCEPT ![i] = TRUE]
    /\ UNCHANGED <<dbVars, clientVars, running, upc, cycOrders, idx, batch, stx, cycles, hist>>
    /\ UNCHANGED <<http, tickerC, luhn>>

\* mutant: update() goes on to its loop without waiting for the goroutines
WaitNoBarrier ==
    /\ upc = "fanout"
    /\ upc' = "classify"
    /\ idx' = 1
    /\ UNCHANGED <<dbVars, clientVars, running, cycOrders, ordersInfo, queried, batch,
                   stx, cycles, hist>>
    /\ UNCHANGED <<http, tickerC, luhn>>

\* wg.Wait() returns
Wait ==
    /\ upc = "fanout"
    /\ \A i \in DOMAIN queried : queried[i]
    /\ upc' = "classify"
    /\ idx' = 1
    /\ UNCHANGED <<dbVars, clientVars, running, cycOrders, ordersInfo, queried, batch,
                   stx, cycles, hist>>
    /\ UNCHANGED <<http, tickerC, luhn>>

\* one iteration of the loop over ordersInfo
ClassifyStep ==
    /\ upc = "classify"
    /\ idx <= Len(cycOrders)
    /\ idx' = idx + 1
    /\ LET info == ordersInfo[idx]
           o == Classify(cycOrders[idx], info)
       IN IF Failed(info)
          THEN UNCHANGED <<cycOrders, batch, orders>>
          ELSE /\ cycOrders' = [cycOrders EXCEPT ![idx] = o]
               /\ IF NeedsBalanceUpdate(info)
                  THEN /\ batch' = Append(batch, o)
                       /\ orders' = orders
                  ELSE /\ batch' = batch
                       /\ \E ok \in CallOutcomes :
                            orders' = IF ok THEN UpdateOrderStmt(orders, o) ELSE orders
    /\ UNCHANGED <<users, balance, withdrawal, rowLock, clientVars, running, upc,
                   ordersInfo, queried, stx, cycles, hist>>
    /\ UNCHANGED <<http, tickerC, luhn>>

\* ---------------------------------------------------------------- settlement
\* the UpdateOrder statements of UpdateBalanceFromOrders, one per order
RECURSIVE ExecOrders(_, _)
ExecOrders(tbl, b) ==
    IF b = <<>> THEN tbl ELSE ExecOrders(UpdateOrderStmt(tbl, Head(b)), Tail(b))

\* mutant: the statements run on the pool, outside the transaction
RolledBackKeeps(tbl, written) == written

\* defer tx.Rollback: what the statements executed on tx leave in a table
\* when the transaction does not commit
RolledBack(tbl, written) == tbl

\* totalAmount[o.UserID] += o.Accrual
RECURSIVE AccrualOf(_, _)
AccrualOf(b, u) ==
    IF b = <<>> THEN 0
    ELSE (IF Head(b).UserID = u THEN Head(b).Accrual ELSE 0) + AccrualOf(Tail(b), u)

TotalAmount(b) == [u \in {b[i].UserID : i \in DOMAIN b} |-> AccrualOf(b, u)]

\* mutant: one AddBalance statement per order
CreditStmtsPerOrder(b) == [k \in DOMAIN b |-> [user |-> b[k].UserID, amount |-> b[k].Accrual]]

\* for id, amount := range totalAmount { tx.Exec(AddBalance, amount, id) }:
\* the statements, which run in any order
CreditStmts(b) ==
    LET t == TotalAmount(b)
        us == SortedSeq(DOMAIN t)
    IN [k \in DOMAIN us |-> [user |-> us[k], amount |-> t[us[k]]]]

\* sum of the amounts of the AddBalance statements that updated u's row
RECURSIVE CreditedTo(_, _)
CreditedTo(stmts, u) ==
    IF stmts = <<>> THEN 0
    ELSE (IF Head(stmts).user = u /\ u \in DOMAIN balance THEN Head(stmts).amount ELSE 0)
         + CreditedTo(Tail(stmts), u)

ReleaseLocks(tx) == [u \in UserIDs |-> IF rowLock[u] = tx THEN NoLock ELSE rowLock[u]]

\* UpdateBalanceFromOrders returns an error: the deferred Rollback ends the
\* transaction, update() logs and returns
SettleAbort ==
    /\ orders' = RolledBack(orders, ExecOrders(orders, batch))
    /\ rowLock' = ReleaseLocks(UpdaterTx)
    /\ hist' = [hist EXCEPT !.prev = [processed |-> CurrProcessed, ok |-> FALSE],
                             !.fetched = <<>>]
    /\ Return(FALSE)
    /\ UNCHANGED <<users, balance, withdrawal, clientVars, running, cycles>>

\* the loop over ordersInfo is over: UpdateBalanceFromOrders up to the end of
\* its loop over orders (Begin and the UpdateOrder statements)
SettleBegin ==
    /\ upc = "classify"
    /\ idx > Len(cycOrders)
    /\ IF Len(batch) = 0
       THEN /\ hist' = [hist EXCEPT !.prev = [processed |-> CurrProcessed, ok |-> TRUE],
                                     !.fetched = <<>>]
            /\ Return(TRUE)
            /\ UNCHANGED <<dbVars, clientVars, running, cycles>>
       ELSE \E ok \in CallOutcomes :
              IF ok
              THEN /\ stx' = [state |-> "open", stmts |-> CreditStmts(batch), done |-> {},
                              newRows |-> <<>>]
                   /\ upc' = "settle"
                   /\ UNCHANGED <<dbVars, clientVars, running, cycOrders, ordersInfo,
                                  queried, idx, batch, cycles, hist>>
              ELSE SettleAbort
    /\ UNCHANGED <<http, tickerC, luhn>>

\* tx.Exec(AddBalance, amount, id) for one entry of totalAmount
SettleCredit(k) ==
    /\ upc = "settle"
    /\ running
    /\ k \in DOMAIN stx.stmts
    /\ k \notin stx.done
    /\ LET u == stx.stmts[k].user
           held == rowLock[u] = UpdaterTx
           row == AddBalanceStmt(IF held THEN stx.newRows[u] ELSE balance[u],
                                 stx.stmts[k].amount)
       IN IF u \notin DOMAIN balance
          THEN /\ stx' = [stx EXCEPT !.done = @ \cup {k}]
               /\ UNCHANGED <<dbVars, clientVars, running, upc, cycOrders, ordersInfo,
                              queried, idx, batch, cycles, hist>>
          ELSE /\ rowLock[u] \in {NoLock, UpdaterTx}
               /\ IF BalanceChecks(row)
                  THEN /\ stx' = [stx EXCEPT !.done = @ \cup {k},
                                             !.newRows = (u :> row) @@ stx.newRows]
                       /\ rowLock' = [rowLock EXCEPT ![u] = UpdaterTx]
                       /\ UNCHANGED <<users, orders, balance, withdrawal, clientVars,
                                      running, upc, cycOrders, ordersInfo, queried, idx,
                                      batch, cycles, hist>>
                  ELSE SettleAbort
    /\ UNCHANGED <<http, tickerC, luhn>>

\* a statement or the commit of UpdateBalanceFromOrders fails: connection
\* loss, the operation timeout, the cancelled context
\* (a Commit that returns an error has not committed)
SettleFail ==
    /\ upc = "settle"
    /\ SettleAbort
    /\ UNCHANGED <<http, tickerC, luhn>>

\* tx.Commit succeeds
SettleCommit ==
    /\ upc = "settle"
    /\ running
    /\ stx.done = DOMAIN stx.stmts
    /\ orders' = ExecOrders(orders, batch)
    /\ balance' = [u \in DOMAIN balance |->
                     IF u \in DOMAIN stx.newRows THEN stx.newRows[u] ELSE balance[u]]
    /\ rowLock' = ReleaseLocks(UpdaterTx)
    /\ hist' = [hist EXCEPT
                  !.credited = [o \in OrderIDs |->
                                  @[o] + Cardinality({i \in DOMAIN batch : batch[i].ID = o})],
                  !.credits = [u \in UserIDs |-> @[u] + CreditedTo(stx.stmts, u)],
                  !.prev = [processed |-> CurrProcessed, ok |-> TRUE],
                  !.fetched = <<>>]
    /\ Return(TRUE)
    /\ UNCHANGED <<users, withdrawal, clientVars, running, cycles>>
    /\ UNCHANGED <<http, tickerC, luhn>>

\* ---------------------------------------------------------------- specifications
ApiNext ==
    \/ \E u \in UserIDs : AddUser(u)
    \/ \E p \in Clients, u \in UserIDs, o \in OrderIDs : AddOrder(p, u, o)
    \/ \E p \in Clients, u \in UserIDs, n \in WithdrawNumbers, s \in Sums :
          WithdrawRead(p, u, n, s)
    \/ \E p \in Clients : WithdrawInsert(p)
    \/ \E p \in Clients : WithdrawSetBalance(p)
    \/ \E p \in Clients : WithdrawCommit(p)

UpdaterNext ==
    \/ Stop
    \/ Exit
    \/ Tick
    \/ \E i \in 1..Cardinality(OrderIDs), info \in Verdicts \cup {NilInfo} : Query(i, info)
    \/ Wait
    \/ ClassifyStep
    \/ SettleBegin
    \/ \E k \in 1..Cardinality(UserIDs) : SettleCredit(k)
    \/ SettleFail
    \/ SettleCommit

Next == ApiNext \/ UpdaterNext

\* the program as main wires it: the HTTP API and one Updater
Spec == Init /\ [][Next]_vars

\* The Updater with its ticker, beside the registration of users and the
\* ingestion of orders: ticks may fire while a cycle runs.  (In Spec and
\* SpecLedger a tick is taken when it fires, at the select.)
TimerNext ==
    \/ \E u \in UserIDs : AddUser(u)
    \/ \E p \in Clients, u \in UserIDs, o \in OrderIDs : AddOrder(p, u, o)
    \/ UpdaterNext
    \/ TickerFires

SpecTimer == Init /\ [][TimerNext]_vars

\* The ledger under concurrent callers of the storage interface: users are
\* registered, user 1 may hold a balance credited earlier, every order is
\* ingested and unfinished; two clients call Withdraw and AddBalance while the
\* Updater settles.
InitialBalances == {0, 3}

LedgerVerdicts ==
    {v \in OrderInfos : v.Status = StatusProcessed /\ v.Accrual \in {-1, 1}}

InitLedger ==
    /\ users = UserIDs
    /\ \E owner \in {f \in [OrderIDs -> UserIDs] : f[1] = 1} :
          orders = [o \in OrderIDs |-> NewOrderRow(owner[o])]
    /\ \E b \in InitialBalances :
          /\ balance = [u \in UserIDs |->
                          [current |-> IF u = 1 THEN b ELSE 0, withdrawn |-> 0]]
          /\ hist = [InitHist EXCEPT !.credits = [u \in UserIDs |-> IF u = 1 THEN b ELSE 0]]
    /\ withdrawal = {}
    /\ rowLock = [u \in UserIDs |-> NoLock]
    /\ cpc = [p \in Clients |-> "idle"]
    /\ ctx = [p \in Clients |-> IdleCall]
    /\ res = [p \in Clients |-> NoResult]
    /\ running = TRUE
    /\ upc = "select"
    /\ cycOrders = <<>>
    /\ ordersInfo = <<>>
    /\ queried = <<>>
    /\ idx = 0
    /\ batch = <<>>
    /\ stx = NoTx
    /\ cycles = 0
    /\ http = NoRequest
    /\ tickerC = 0
    /\ luhn = NoNumber

LedgerNext ==
    \/ \E p \in Clients, u \in UserIDs, n \in WithdrawNumbers, s \in Sums :
          WithdrawRead(p, u, n, s)
    \/ \E p \in Clients : WithdrawInsert(p)
    \/ \E p \in Clients : WithdrawSetBalance(p)
    \/ \E p \in Clients : WithdrawCommit(p)
    \/ \E p \in Clients, u \in UserIDs, a \in Amounts : AddBalanceExec(p, u, a)
    \/ \E p \in Clients : AddBalanceCommit(p)
    \/ Tick
    \/ \E i \in 1..Cardinality(OrderIDs), info \in LedgerVerdicts \cup {NilInfo} :
          Query(i, info)
    \/ Wait
    \/ ClassifyStep
    \/ SettleBegin
    \/ \E k \in 1..Cardinality(UserIDs) : SettleCredit(k)
    \/ SettleFail
    \/ SettleCommit

SpecLedger == InitLedger /\ [][LedgerNext]_vars

\* ================================================================ claims
Terminal == {StatusInvalid, StatusProcessed}

\* the step in which update() returns from a cycle that fetched orders
CycleEnds == upc \in {"classify", "settle"} /\ upc' = "select"

\* the step in which UpdateBalanceFromOrders returns, having begun its transaction
\* or failed to
SettlementEnds == CycleEnds /\ Len(batch) > 0

\* the step in which the transaction of UpdateBalanceFromOrders commits
Commits == upc = "settle" /\ upc' = "select" /\ hist'.prev.ok

\* the step in which update() fetches a non-empty unfinished set
Fetches == upc = "select" /\ upc' = "fanout"

FetchedIDs(os) == {os[i].ID : i \in DOMAIN os}

\* the sum of the accruals of the PROCESSED verdicts that the cycle holds in
\* slots 1..n for orders of user u
RECURSIVE VerdictSum(_, _)
VerdictSum(u, n) ==
    IF n = 0 THEN 0
    ELSE (IF ordersInfo[n].Status = StatusProcessed /\ cycOrders[n].UserID = u
          THEN ordersInfo[n].Accrual ELSE 0) + VerdictSum(u, n - 1)

\* ---------------------------------------------------------------- C1
\* C1: every order's accrual is part of at most one committed balance credit,
\* whatever the queries and settlements of the cycles did; and a cycle that
\* follows a cycle whose settlement succeeded and that gets a PROCESSED verdict
\* for no order but those the previous cycle had one for (in particular a
\* cycle that gets the same verdicts again) credits no balance.
C1_ExactlyOnceCredit ==
    /\ [](\A o \in OrderIDs : hist.credited[o] <= 1)
    /\ [][(CycleEnds /\ hist.prev.ok /\ CurrProcessed \subseteq hist.prev.processed)
            => hist'.credits = hist.start]_vars

\* a second cycle has its verdicts, after a first one that credited an order
\* and whose settlement succeeded
C1_Witness ==
    /\ cycles = 2
    /\ upc = "classify"
    /\ idx > Len(cycOrders)
    /\ hist.prev.ok
    /\ \E o \in hist.prev.processed : hist.credited[o] = 1
    /\ CurrProcessed \subseteq hist.prev.processed
    /\ \E i \in DOMAIN ordersInfo : ordersInfo[i] # NilInfo

\* ---------------------------------------------------------------- C2
\* C2: while the transaction of UpdateBalanceFromOrders is open none of its
\* writes is visible; when the call returns nil every order of the batch has
\* its new status and accrual stored and every user's balance has grown by
\* the sum of the accruals of that user's orders in the batch; when it
\* returns an error no order row and no balance row has changed.
C2_AllOrNothing ==
    /\ [](upc = "settle" =>
            /\ \A i \in DOMAIN batch : orders[batch[i].ID].status \in UnfinishedStatuses
            /\ hist.credits = hist.start)
    /\ [][SettlementEnds =>
            IF hist'.prev.ok
            THEN /\ \A i \in DOMAIN batch :
                       /\ orders'[batch[i].ID].status = batch[i].Status
                       /\ orders'[batch[i].ID].accrual = batch[i].Accrual
                 /\ \A u \in users :
                       /\ balance'[u].current = balance[u].current + AccrualOf(batch, u)
                       /\ hist'.credits[u] = hist.credits[u] + AccrualOf(batch, u)
            ELSE /\ orders' = orders
                 /\ balance' = balance
                 /\ hist'.credits = hist.credits]_vars

\* the transaction is open on a batch of two orders and has executed a credit
C2_Witness ==
    /\ upc = "settle"
    /\ Len(batch) = 2
    /\ stx.done # {}

\* ---------------------------------------------------------------- C3
\* C3: in every committed state every balance row has current >= 0 and
\* withdrawn >= 0, whatever the interleaving of Withdraw, AddBalance and
\* UpdateBalanceFromOrders.
C3_NonNegativeBalance ==
    \A u \in DOMAIN balance : balance[u].current >= 0 /\ balance[u].withdrawn >= 0

\* two Withdraw calls that both read the balance before either wrote, and
\* together overdraw it, have returned
C3_Witness ==
    \E p, q \in Clients :
        /\ p # q
        /\ cpc[p] = "done" /\ ctx[p].raced
        /\ cpc[q] = "done" /\ ctx[q].raced

\* ---------------------------------------------------------------- C4
\* C4: when two Withdraw calls for one user, each for an amount the balance
\* they both read covers and that together exceed it, have returned, with
\* no other operation on the ledger, one returned nil and the other
\* ErrNotEnoughBalance, one withdrawal record is stored and current is
\* reduced by its sum.
C4_WithdrawRace ==
    \A p, q \in Clients :
        (/\ p # q
         /\ cpc[p] = "done" /\ ctx[p].raced
         /\ cpc[q] = "done" /\ ctx[q].raced
         /\ cycles = 0
         /\ \A r \in Clients \ {p, q} : cpc[r] = "idle")
        => /\ {res[p], res[q]} = {Ok, ErrNotEnoughBalance}
           /\ Cardinality(withdrawal) = 1
           /\ \A w \in withdrawal :
                 balance[w.user_id].current = hist.credits[w.user_id] - w.sum

\* ---------------------------------------------------------------- C6
\* C6: a Withdraw call for a sum greater than the current of the balance it
\* reads returns ErrNotEnoughBalance in that step and leaves the balance
\* table, the withdrawal table and the row locks as they were.
C6_InsufficientBalance ==
    [][\A p \in Clients, u \in UserIDs, n \in WithdrawNumbers, s \in Sums :
          (WithdrawRead(p, u, n, s) /\ s > GetUserBalance(balance, u).current)
          => /\ res'[p] = ErrNotEnoughBalance
             /\ cpc'[p] = "done"
             /\ balance' = balance
             /\ withdrawal' = withdrawal
             /\ rowLock' = rowLock]_vars

\* a Withdraw call returned ErrNotEnoughBalance while every user's balance
\* was positive
C6_Witness ==
    /\ \E p \in Clients : res[p] = ErrNotEnoughBalance
    /\ \A u \in users : balance[u].current > 0
    /\ withdrawal = {}

\* ---------------------------------------------------------------- C7
\* C7: in every committed state every user's balance.current is the sum of
\* the amounts of the committed credits (the initial balance, AddBalance
\* calls, settlement credits) minus the sum of the committed withdrawals,
\* and balance.withdrawn is the sum of the committed withdrawals.
C7_NoLostCredit ==
    \A u \in DOMAIN balance :
        /\ balance[u].current = hist.credits[u] - hist.debits[u]
        /\ balance[u].withdrawn = hist.debits[u]

\* a withdrawal and a settlement credit of one user have committed while a
\* client's transaction holds the lock of that user's balance row
C7_Witness ==
    \E u \in users :
        /\ hist.debits[u] > 0
        /\ \E o \in DOMAIN orders : orders[o].user_id = u /\ hist.credited[o] = 1
        /\ rowLock[u] \in Clients

\* ---------------------------------------------------------------- C5
\* C5: a stored order whose status is INVALID or PROCESSED is changed by no
\* step, and the unfinished set a cycle fetches holds no such order.
C5_TerminalAbsorbing ==
    [][/\ \A o \in DOMAIN orders :
            orders[o].status \in Terminal => (o \in DOMAIN orders' /\ orders'[o] = orders[o])
       /\ Fetches => \A o \in FetchedIDs(cycOrders') : orders[o].status \notin Terminal]_vars

\* a second cycle runs its loop over the verdicts while an order that the
\* first cycle made PROCESSED is stored
C5_Witness ==
    /\ cycles = 2
    /\ upc = "classify"
    /\ idx > 1
    /\ ordersInfo[1] # NilInfo
    /\ \E o \in hist.prev.processed : orders[o].status = StatusProcessed

\* ---------------------------------------------------------------- C8
\* C8: when the settlement of a cycle commits, every order the cycle holds a
\* PROCESSED verdict for is stored as PROCESSED with the verdict's accrual,
\* every user's balance.current grows by exactly the sum of the accruals of
\* the PROCESSED verdicts for that user's orders (by A for one order, by 0
\* for a user with none), and no later fetch returns a credited order.
C8_ProcessedSettled ==
    [][/\ Commits =>
            /\ \A i \in DOMAIN cycOrders :
                  ordersInfo[i].Status = StatusProcessed =>
                      orders'[cycOrders[i].ID] =
                          [user_id |-> orders[cycOrders[i].ID].user_id,
                           status |-> StatusProcessed,
                           accrual |-> ordersInfo[i].Accrual]
            /\ \A u \in users :
                  balance'[u].current = balance[u].current + VerdictSum(u, Len(cycOrders))
       /\ Fetches => \A o \in FetchedIDs(cycOrders') : hist.credited[o] = 0]_vars

\* an order is stored PROCESSED with a positive accrual that was credited, and
\* a later cycle has fetched its unfinished set
C8_Witness ==
    /\ cycles = 2
    /\ upc = "fanout"
    /\ \E o \in DOMAIN orders :
          /\ orders[o].status = StatusProcessed
          /\ orders[o].accrual > 0
          /\ hist.credited[o] = 1
          /\ balance[orders[o].user_id].current = orders[o].accrual

\* ---------------------------------------------------------------- C9
\* the internal status the protocol gives each status of the authority
ClassifiedStatus(st) ==
    CASE st = StatusRegistered -> StatusProcessing
      [] st = StatusProcessing -> StatusProcessing
      [] st = StatusInvalid -> StatusInvalid
      [] st = StatusProcessed -> StatusProcessed

\* C9: the iteration of the loop over a slot that holds a verdict gives the
\* order status PROCESSING for REGISTERED and PROCESSING, INVALID for INVALID,
\* PROCESSED for PROCESSED; a PROCESSED verdict sets the accrual to the
\* verdict's and puts the order in the batch to credit; the other three
\* leave the accrual 0, the batch and every balance as they were, and what
\* they store is the new status with accrual 0.  The batch holds only orders
\* with a PROCESSED verdict.
C9_VerdictClassification ==
    /\ [](\A i \in DOMAIN batch :
            \E j \in DOMAIN cycOrders :
                /\ cycOrders[j].ID = batch[i].ID
                /\ ordersInfo[j].Status = StatusProcessed)
    /\ [][(upc = "classify" /\ idx' = idx + 1
             /\ ordersInfo[idx].Status \in
                  {StatusRegistered, StatusProcessing, StatusInvalid, StatusProcessed}) =>
            LET info == ordersInfo[idx]
                new == cycOrders'[idx]
                id == cycOrders[idx].ID
            IN /\ new.Status = ClassifiedStatus(info.Status)
               /\ balance' = balance
               /\ IF info.Status = StatusProcessed
                  THEN /\ new.Accrual = info.Accrual
                       /\ batch' = Append(batch, new)
                  ELSE /\ new.Accrual = 0
                       /\ batch' = batch
                       /\ orders'[id].accrual = 0
                       /\ orders'[id].status \in {orders[id].status, new.Status}]_vars

\* a REGISTERED verdict that carried accrual 1 left the order stored as
\* PROCESSING with accrual 0
C9_Witness ==
    /\ upc = "classify"
    /\ idx > 1
    /\ ordersInfo[1] = [Status |-> StatusRegistered, Accrual |-> 1]
    /\ orders[cycOrders[1].ID].status = StatusProcessing
    /\ orders[cycOrders[1].ID].accrual = 0
    /\ cycOrders[1].Status = StatusProcessing

\* ---------------------------------------------------------------- C10
\* C10: the transaction that a cycle commits makes all the orders of the
\* batch PROCESSED in one step and has executed, for every user with an
\* order in the batch, exactly one AddBalance statement, whose amount is the
\* sum of the accruals of that user's orders in the batch, and none for any
\* other user; the user's balance.current grows by that sum.
C10_PerUserAggregation ==
    [][Commits =>
        /\ \A i \in DOMAIN batch :
              /\ orders[batch[i].ID].status # StatusProcessed
              /\ orders'[batch[i].ID].status = StatusProcessed
        /\ \A u \in UserIDs :
              LET ks == {k \in DOMAIN stx.stmts : stx.stmts[k].user = u}
              IN IF \E i \in DOMAIN batch : batch[i].UserID = u
                 THEN /\ Cardinality(ks) = 1
                      /\ \A k \in ks : stx.stmts[k].amount = AccrualOf(batch, u)
                      /\ balance'[u].current = balance[u].current + AccrualOf(batch, u)
                 ELSE ks = {}]_vars

\* one cycle made two orders of one user PROCESSED, with accruals 1 and 2, and
\* the user's balance is 3
C10_Witness ==
    /\ hist.prev.ok
    /\ hist.prev.processed = {1, 2}
    /\ orders[1].user_id = orders[2].user_id
    /\ {orders[1].accrual, orders[2].accrual} = {1, 2}
    /\ balance[orders[1].user_id].current = 3
    /\ cycles = 1

\* ---------------------------------------------------------------- C11
\* the slots of the running cycle whose query failed
FailedSlots == {i \in DOMAIN cycOrders : ordersInfo[i] = NilInfo}

\* C11: an order whose verdict query failed in a cycle is written by no step
\* of that cycle: the iteration over its slot changes no table and not the
\* batch, the order is not in the batch, and when the cycle ends the order is
\* stored as it was fetched (unfinished, same accrual) and has been credited
\* no more often than before.  The other orders of the cycle are classified
\* and settled all the same: when the cycle ends with its settlement
\* committed, every order with a PROCESSED verdict is stored PROCESSED and
\* credited once.
C11_FailedQuerySkipped ==
    /\ [](upc \in {"classify", "settle"} =>
            \A i \in FailedSlots :
                /\ \A k \in DOMAIN batch : batch[k].ID # cycOrders[i].ID
                /\ hist.credited[cycOrders[i].ID] = 0)
    /\ [][/\ (upc = "classify" /\ idx' = idx + 1 /\ idx \in FailedSlots) =>
                (orders' = orders /\ balance' = balance /\ batch' = batch)
          /\ CycleEnds =>
                /\ \A i \in FailedSlots :
                      /\ orders'[cycOrders[i].ID].status = cycOrders[i].Status
                      /\ orders'[cycOrders[i].ID].status \in UnfinishedStatuses
                      /\ orders'[cycOrders[i].ID].accrual = cycOrders[i].Accrual
                      /\ hist'.credited[cycOrders[i].ID] = hist.credited[cycOrders[i].ID]
                /\ hist'.prev.ok =>
                      \A j \in DOMAIN cycOrders :
                          ordersInfo[j].Status = StatusProcessed =>
                              /\ orders'[cycOrders[j].ID].status = StatusProcessed
                              /\ hist'.credited[cycOrders[j].ID] = 1]_vars

\* a cycle whose first query failed and whose second returned PROCESSED has
\* committed its settlement: the first order is unfinished, the second credited
C11_Witness ==
    /\ cycles = 1
    /\ upc = "select"
    /\ hist.prev.ok
    /\ hist.prev.processed = {2}
    /\ 1 \in DOMAIN orders /\ orders[1].status = StatusNew
    /\ hist.credited[2] = 1

\* ---------------------------------------------------------------- C12
\* the step in which UpdateBalanceFromOrders returns an error
SettlementFails == SettlementEnds /\ ~hist'.prev.ok

\* the slots of the running cycle that hold a verdict
VerdictSlots == {i \in DOMAIN cycOrders : ordersInfo[i] # NilInfo}

\* C12 as stated: when the settlement of a cycle fails, every order the cycle
\* had a verdict for is stored with the status and accrual it had when the
\* cycle fetched it, is still unfinished, and no balance has changed.
C12_WholeCycleRolledBack ==
    [][SettlementFails =>
        /\ \A i \in VerdictSlots :
              /\ orders'[cycOrders[i].ID].status = hist.fetched[i]
              /\ orders'[cycOrders[i].ID].accrual = 0
              /\ orders'[cycOrders[i].ID].status \in UnfinishedStatuses
        /\ balance' = balance
        /\ hist'.credits = hist.start]_vars

\* C12 amended: when the settlement of a cycle fails, every order with a
\* PROCESSED verdict (the batch of the settlement) is stored with the status
\* it was fetched with and accrual 0 and is still unfinished, and no balance
\* has changed in the cycle; an order with any other verdict is stored with
\* accrual 0 and with the status it was fetched with or the status the
\* verdict classifies to, which UpdateOrder wrote in a transaction of its own
\* before the settlement began.
C12_BatchRolledBack ==
    [][SettlementFails =>
        /\ \A i \in VerdictSlots :
              LET row == orders'[cycOrders[i].ID]
              IN /\ row.accrual = 0
                 /\ IF ordersInfo[i].Status = StatusProcessed
                    THEN row.status = hist.fetched[i] /\ row.status \in UnfinishedStatuses
                    ELSE row.status \in {hist.fetched[i], cycOrders[i].Status}
        /\ balance' = balance
        /\ hist'.credits = hist.start]_vars

\* the settlement of the first cycle failed on a batch holding order 2, after
\* the INVALID verdict of order 1 was stored
C12_Witness ==
    /\ cycles = 1
    /\ upc = "select"
    /\ ~hist.prev.ok
    /\ hist.prev.processed = {2}
    /\ 1 \in DOMAIN orders /\ orders[1].status = StatusInvalid
    /\ orders[2].status = StatusNew

\* ================================================================ getOrderStatus
\* One verdict query: Updater.getOrderStatus on the resty client NewUpdater
\* builds.  Request.Get runs the request under the client's retry loop:
\* an attempt is repeated only when it ended in an error of the transport
\* (the client is given no retry condition), at most RetryCount times, after
\* a wait of RetryAfter's duration held between the client's wait bounds, or
\* a backoff between those bounds when RetryAfter gives 0.  Time is counted
\* in whole seconds.
MaxTime == 4
MaxRetryAfter == 3

\* resty.New().SetRetryCount(3)
RetryCount == 3

\* resty.New(): the default MaxWaitTime of the client, 2 seconds; its default
\* WaitTime, 100 milliseconds, is below one second
MaxWaitTime == 2
WaitTime == 0

StatusOK == 200
StatusTooManyRequests == 429
StatusInternalServerError == 500
\* no response: the transport returned an error
NoStatus == 0

\* what an attempt may end with
Responses ==
    [code : {StatusOK}, retryAfter : {0}, body : {"json", "malformed"}]
    \cup [code : {StatusTooManyRequests}, retryAfter : 0..MaxRetryAfter, body : {"none"}]
    \cup [code : {StatusInternalServerError, NoStatus}, retryAfter : {0}, body : {"none"}]

\* the retry loop of the client: an attempt is repeated when it returned an
\* error; a response, whatever its status code, is no error
NeedsRetry(resp) == resp.code = NoStatus

\* retryFunc: 0 unless the status is 429 and Retry-After is set
RetryAfter(resp) ==
    IF resp.code # StatusTooManyRequests THEN 0 ELSE resp.retryAfter

\* the wait before the next attempt
SleepDuration(resp) ==
    LET result == RetryAfter(resp)
    IN IF result = 0 THEN WaitTime..MaxWaitTime
       ELSE IF result > MaxWaitTime THEN {MaxWaitTime}
       ELSE IF result < WaitTime THEN {WaitTime}
       ELSE {result}

\* mutant: the body is decoded whatever the status code
DecodeAnyStatus(resp) ==
    IF resp.body = "malformed" THEN "error"
    ELSE "info"

\* getOrderStatus after Get returned a response
Decode(resp) ==
    IF resp.code # StatusOK THEN "error"
    ELSE IF resp.body = "malformed" THEN "error"
    ELSE "info"

\* an attempt of the request ends with resp
HttpExecute(resp) ==
    /\ http.pc = "send"
    /\ IF ~running
       THEN http' = [http EXCEPT !.pc = "done", !.result = "error"]
       ELSE IF ~NeedsRetry(resp)
       THEN http' = [http EXCEPT !.pc = "done", !.resp = resp, !.at = http.now,
                                 !.result = Decode(resp)]
       ELSE IF http.attempt = RetryCount
       THEN http' = [http EXCEPT !.pc = "done", !.resp = resp, !.at = http.now,
                                 !.result = "error"]
       ELSE \E w \in SleepDuration(resp) :
               http' = [http EXCEPT !.pc = "wait", !.resp = resp, !.at = http.now,
                                    !.readyAt = http.now + w]
    /\ UNCHANGED <<dbVars, clientVars, updVars, hist, tickerC, luhn>>

\* the wait is over, or the context is cancelled during it
HttpWake ==
    /\ http.pc = "wait"
    /\ IF ~running
       THEN http' = [http EXCEPT !.pc = "done", !.result = "error"]
       ELSE /\ http.now >= http.readyAt
            /\ http' = [http EXCEPT !.pc = "send", !.attempt = @ + 1]
    /\ UNCHANGED <<dbVars, clientVars, updVars, hist, tickerC, luhn>>

\* a second passes
HttpClock ==
    /\ http.pc # "done"
    /\ http.now < MaxTime
    /\ http' = [http EXCEPT !.now = @ + 1]
    /\ UNCHANGED <<dbVars, clientVars, updVars, hist, tickerC, luhn>>

QueryNext ==
    \/ \E resp \in Responses : HttpExecute(resp)
    \/ HttpWake
    \/ HttpClock
    \/ Stop

\* one verdict query of a running Updater, against any authority
SpecQuery == Init /\ [][QueryNext]_vars

\* ---------------------------------------------------------------- C13
\* the ceiling of attempts per query: the number the client is configured with
MaxAttempts == RetryCount

\* C13: a query makes at most MaxAttempts attempts, and an attempt answered
\* with 429 ends the query only when it is the last of them, with an error:
\* before that the query goes on to another attempt.
C13_RetryCeiling ==
    /\ http.attempt + 1 <= MaxAttempts
    /\ (http.pc = "done" /\ running /\ http.resp.code = StatusTooManyRequests)
          => (http.attempt + 1 = MaxAttempts /\ http.result = "error")

\* ---------------------------------------------------------------- C14
\* C14: after an attempt answered at time t with 429 and Retry-After n, the
\* query waits until t + n at least and only then makes its next attempt,
\* unless that attempt was the last the ceiling allows.
C14_RetryAfterHonored ==
    (running /\ http.resp.code = StatusTooManyRequests /\ http.resp.retryAfter > 0)
      => \/ http.pc = "wait" /\ http.readyAt >= http.at + http.resp.retryAfter
         \/ http.pc = "send" /\ http.now >= http.at + http.resp.retryAfter
         \/ http.pc = "done" /\ http.attempt + 1 >= MaxAttempts

\* ---------------------------------------------------------------- C15
\* C15: once Stop() has been called no step starts a cycle: updateOrders does
\* not call update().
C15_NoCycleAfterStop ==
    [][~running => cycles' = cycles]_vars

\* ---------------------------------------------------------------- C16
\* C16: the Updater is running when constructed; the only step that changes
\* its state is a step of Stop() on a running Updater, which stops it and
\* changes nothing else; a step of Stop() on a stopped Updater changes
\* nothing; no step makes a stopped Updater run again, and the goroutine that
\* has left updateOrders stays out.
C16_Lifecycle ==
    /\ running = TRUE
    /\ [][/\ ~running => ~running'
          /\ running' # running => (Stop /\ running)
          /\ (Stop /\ ~running) => UNCHANGED vars
          /\ upc = "exited" => upc' = "exited"
          /\ upc' = "exited" => ~running]_vars

\* a stopped Updater whose goroutine has left updateOrders, after a cycle on
\* stored orders
C16_Witness ==
    /\ ~running
    /\ upc = "exited"
    /\ cycles > 0
    /\ orders # <<>>

\* ---------------------------------------------------------------- C17
\* C17: a step that stores an order as INVALID or PROCESSED, or changes the
\* status of a stored order to one of them, is a step of a cycle that holds,
\* for that order, a verdict of the authority with that very status; a failed
\* query, a verdict with another status and a failed store call make no
\* order INVALID or PROCESSED.
C17_OnlyVerdictsTerminate ==
    [][\A o \in DOMAIN orders' :
          (/\ orders'[o].status \in Terminal
           /\ (o \notin DOMAIN orders \/ orders[o].status # orders'[o].status))
          => \E i \in DOMAIN cycOrders :
                /\ cycOrders[i].ID = o
                /\ ordersInfo[i] # NilInfo
                /\ ordersInfo[i].Status = orders'[o].status]_vars

\* the loop of a cycle is over: the query of the first order failed and it is
\* stored unfinished, the second got an INVALID verdict and is stored INVALID
C17_Witness ==
    /\ upc = "classify"
    /\ idx > Len(cycOrders)
    /\ Len(cycOrders) = 2
    /\ ordersInfo[1] = NilInfo
    /\ ordersInfo[2].Status = StatusInvalid
    /\ orders[cycOrders[1].ID].status \in UnfinishedStatuses
    /\ orders[cycOrders[2].ID].status = StatusInvalid

\* ---------------------------------------------------------------- C18
\* C18: no two withdrawal records have the same number; no step removes or
\* changes a record; a Withdraw call adds a record only when it commits, one
\* record, with a number no record had; and a Withdraw call whose number a
\* record already has never commits: the step in which its insert is tried
\* returns an error and leaves the withdrawal table, every balance and the
\* row locks as they were.
C18_WithdrawalsAppendOnly ==
    /\ [](\A v, w \in withdrawal : v.number = w.number => v = w)
    /\ [][/\ withdrawal \subseteq withdrawal'
          /\ \A w \in withdrawal' \ withdrawal :
                /\ ~NumberTaken(withdrawal, w.number)
                /\ withdrawal' = withdrawal \cup {w}
                /\ \E p \in Clients : cpc[p] = "commit" /\ res'[p] = Ok
                                      /\ ctx[p].number = w.number
          /\ \A p \in Clients :
                (cpc[p] \in {"insert", "setbal", "commit"} /\ cpc'[p] # cpc[p]
                   /\ NumberTaken(withdrawal, ctx[p].number))
                => /\ cpc[p] = "insert"
                   /\ cpc'[p] = "done"
                   /\ res'[p] \in {ErrUniqueViolation, ErrCheckViolation}
                   /\ withdrawal' = withdrawal
                   /\ balance' = balance
                   /\ rowLock' = rowLock]_vars

\* a Withdraw call whose number a record already has returned the error of
\* the unique index
C18_Witness ==
    \E p \in Clients :
        /\ cpc[p] = "done"
        /\ res[p] = ErrUniqueViolation
        /\ Cardinality(withdrawal) = 1
        /\ \A w \in withdrawal : balance[w.user_id].withdrawn = w.sum

\* ---------------------------------------------------------------- C19
\* C19: an AddOrder call for a number that is stored returns
\* ErrOrderAlreadyPlaced when the stored order is the caller's and
\* ErrDuplicateOrder when it is another user's, and the step changes no
\* table (the stored order keeps owner, status and accrual) and nothing of
\* the Updater's cycle.
C19_DuplicateOrderConflict ==
    [][\A p \in Clients, u \in UserIDs, o \in OrderIDs :
          (AddOrder(p, u, o) /\ o \in DOMAIN orders)
          => /\ cpc'[p] = "done"
             /\ orders[o].user_id = u => res'[p] = ErrOrderAlreadyPlaced
             /\ orders[o].user_id # u => res'[p] = ErrDuplicateOrder
             /\ orders' = orders
             /\ UNCHANGED <<users, balance, withdrawal, updVars, hist>>]_vars

\* an AddOrder call for the number of another user's order, which a cycle had
\* made PROCESSED, returned ErrDuplicateOrder
C19_Witness ==
    \E p \in Clients, o \in DOMAIN orders :
        /\ res[p] = ErrDuplicateOrder
        /\ orders[o].status = StatusProcessed
        /\ hist.credited[o] = 1
        /\ DOMAIN orders = {o}

\* ---------------------------------------------------------------- C20
\* C20: an order is stored, when ingested, as NEW with accrual 0; and the set
\* a cycle fetches holds every stored order whose status is NEW or
\* PROCESSING, whoever owns it, each once and with its stored owner, status
\* and accrual, and no other order.
C20_UnfinishedExactly ==
    [][/\ \A o \in DOMAIN orders' \ DOMAIN orders :
             orders'[o].status = StatusNew /\ orders'[o].accrual = 0
       /\ Fetches =>
             /\ FetchedIDs(cycOrders') =
                   {o \in DOMAIN orders : orders[o].status \in {StatusNew, StatusProcessing}}
             /\ Len(cycOrders') = Cardinality(FetchedIDs(cycOrders'))
             /\ \A i \in DOMAIN cycOrders' :
                   LET f == cycOrders'[i]
                   IN /\ f.UserID = orders[f.ID].user_id
                      /\ f.Status = orders[f.ID].status
                      /\ f.Accrual = orders[f.ID].accrual]_vars

\* the second cycle fetched two orders of two users, one NEW and one that the
\* first cycle made PROCESSING
C20_Witness ==
    /\ cycles = 2
    /\ upc = "fanout"
    /\ Len(cycOrders) = 2
    /\ cycOrders[1].UserID # cycOrders[2].UserID
    /\ {cycOrders[1].Status, cycOrders[2].Status} = {StatusNew, StatusProcessing}

\* ---------------------------------------------------------------- C21
\* the iteration of the loop over slot i stores a verdict with UpdateOrder
StoresVerdict(i) ==
    /\ upc = "classify"
    /\ idx = i
    /\ idx' = idx + 1
    /\ ordersInfo[i] # NilInfo
    /\ ordersInfo[i].Status # StatusProcessed

\* C21 as stated: the stored row of an order of the running cycle changes in
\* no step but the commit of the cycle's settlement, and that commit stores
\* the classified status of every order the cycle has a verdict for.
C21_SingleSettlementTx ==
    [][/\ \A i \in DOMAIN cycOrders :
             orders'[cycOrders[i].ID] # orders[cycOrders[i].ID] => Commits
       /\ Commits =>
             \A i \in VerdictSlots : orders'[cycOrders[i].ID].status = cycOrders[i].Status]_vars

\* C21 amended: a cycle runs at most one settlement transaction, begun when
\* the loop over the verdicts is over.  Its commit is the only step that
\* credits a balance, and in that one step every order with a PROCESSED
\* verdict becomes PROCESSED and every user's credits grow by the sum of the
\* accruals of that user's orders in the batch.  The stored row of an order
\* of the cycle changes otherwise only in the iteration of the loop over its
\* slot, when the verdict is not PROCESSED: that step stores the classified
\* status of this order alone and credits nothing, before the settlement
\* has begun.
C21_ProcessedSettledTogether ==
    [][/\ \A i \in DOMAIN cycOrders :
             LET id == cycOrders[i].ID
             IN orders'[id] # orders[id] =>
                   \/ Commits /\ ordersInfo[i].Status = StatusProcessed
                   \/ /\ StoresVerdict(i)
                      /\ orders'[id] = [orders[id] EXCEPT !.status = cycOrders'[i].Status]
                      /\ \A o \in DOMAIN orders \ {id} : orders'[o] = orders[o]
                      /\ stx.state = "none"
       /\ hist'.credits # hist.credits => Commits
       /\ Commits =>
             /\ \A k \in DOMAIN batch :
                   /\ orders[batch[k].ID].status \in UnfinishedStatuses
                   /\ orders'[batch[k].ID].status = StatusProcessed
             /\ \A u \in UserIDs :
                   hist'.credits[u] =
                      hist.credits[u] + (IF u \in users THEN AccrualOf(batch, u) ELSE 0)
       /\ (stx.state = "none" /\ stx'.state = "open") =>
             (upc = "classify" /\ idx > Len(cycOrders) /\ upc' = "settle")
       /\ upc = "settle" => upc' \in {"settle", "select"}]_vars

\* the settlement transaction of a cycle is open and has executed a credit:
\* the INVALID verdict of one order is stored, the order of the batch is
\* still stored unfinished
C21_Witness ==
    /\ upc = "settle"
    /\ stx.done # {}
    /\ \E i \in DOMAIN cycOrders :
          /\ ordersInfo[i].Status = StatusInvalid
          /\ orders[cycOrders[i].ID].status = StatusInvalid
    /\ \E k \in DOMAIN batch : orders[batch[k].ID].status \in UnfinishedStatuses

\* ---------------------------------------------------------------- C22
\* C22: a cycle that fetched orders has one query per fetched order, none of
\* them finished when the fan-out starts; the queries finish one at a time
\* in any order, each once, and a finished query is the only thing that
\* fills a slot of ordersInfo; while a query of the cycle is unfinished the
\* cycle is at the barrier: it has classified nothing, its batch is empty,
\* no settlement is open, and no step changes the stored row of an order of
\* the cycle or credits a balance.
C22_FanInBarrier ==
    /\ [](/\ DOMAIN queried = DOMAIN cycOrders
          /\ DOMAIN ordersInfo = DOMAIN cycOrders
          /\ \A i, j \in DOMAIN cycOrders : cycOrders[i].ID = cycOrders[j].ID => i = j
          /\ (\E i \in DOMAIN queried : ~queried[i]) =>
                /\ upc = "fanout"
                /\ idx = 0
                /\ batch = <<>>
                /\ stx = NoTx
          /\ \A i \in DOMAIN queried : ~queried[i] => ordersInfo[i] = NilInfo)
    /\ [][/\ Fetches => \A i \in DOMAIN cycOrders' : ~queried'[i]
          /\ (upc = "fanout" /\ \E i \in DOMAIN queried : ~queried[i]) =>
                /\ \A i \in DOMAIN cycOrders : orders'[cycOrders[i].ID] = orders[cycOrders[i].ID]
                /\ hist'.credits = hist.credits
                /\ upc' = "fanout"
          /\ upc = "fanout" =>
                /\ Cardinality({i \in DOMAIN queried : queried'[i] # queried[i]}) <= 1
                /\ \A i \in DOMAIN queried :
                      /\ queried[i] => queried'[i]
                      /\ ordersInfo'[i] # ordersInfo[i] => (~queried[i] /\ queried'[i])]_vars

\* the query of the second order has returned a PROCESSED verdict while the
\* query of the first is unfinished: both orders are stored as fetched
C22_Witness ==
    /\ upc = "fanout"
    /\ Len(cycOrders) = 2
    /\ ~queried[1]
    /\ queried[2] /\ ordersInfo[2].Status = StatusProcessed
    /\ orders[cycOrders[1].ID].status = StatusNew
    /\ orders[cycOrders[2].ID].status = StatusNew

\* ---------------------------------------------------------------- C23
\* C23: update() is called only by the goroutine of updateOrders, from its
\* select: a cycle starts only when no cycle is in progress (no orders held,
\* no settlement open), a settlement transaction is begun only when none is
\* open, and outside a cycle the Updater holds nothing of one.  A tick that
\* fires while a cycle runs changes nothing but ticker.C, where it waits;
\* a further tick is dropped (ticker.C holds one tick at most), and the
\* waiting tick stays there until the cycle has returned, when the select
\* takes it.
C23_CyclesNeverOverlap ==
    /\ [](/\ tickerC \in {0, 1}
          /\ upc \in {"select", "exited"} =>
                (cycOrders = <<>> /\ ordersInfo = <<>> /\ batch = <<>> /\ stx = NoTx))
    /\ [][/\ cycles' # cycles =>
                /\ upc = "select"
                /\ cycOrders = <<>>
                /\ stx = NoTx
                /\ tickerC' = 0
          /\ (stx.state # "open" /\ stx'.state = "open") => (stx = NoTx /\ upc = "classify")
          /\ (upc \notin {"select", "exited"} /\ tickerC' # tickerC) =>
                /\ tickerC' = 1
                /\ UNCHANGED <<dbVars, clientVars, updVars, hist, http>>
          /\ (upc # "select" /\ tickerC = 1) => tickerC' = 1]_vars

\* a tick waits in ticker.C while the settlement transaction of the first
\* cycle is open and has executed a credit
C23_Witness ==
    /\ cycles = 1
    /\ upc = "settle"
    /\ stx.done # {}
    /\ tickerC = 1

\* ---------------------------------------------------------------- C24
\* the positions of a Withdraw call between its read of the balance and the
\* end of its transaction
InWithdrawTx == {"insert", "setbal", "commit"}

\* C24: no two Withdraw transactions for one user, each for a positive sum,
\* are both past their read of the user's balance row and not yet ended.
C24_LockedBalanceRead ==
    \A p, q \in Clients :
        (/\ p # q
         /\ cpc[p] \in InWithdrawTx /\ ctx[p].sum > 0
         /\ cpc[q] \in InWithdrawTx /\ ctx[q].sum > 0)
        => ctx[p].user # ctx[q].user

\* ---------------------------------------------------------------- C25
\* C25: when a cycle of a running Updater ends, every order of the cycle
\* whose query failed, whose verdict was REGISTERED or PROCESSING, or whose
\* verdict was PROCESSED while the settlement failed, is stored NEW or
\* PROCESSING; every fetch of a cycle returns every order stored NEW or
\* PROCESSING, those left by earlier cycles included, as a function of the
\* orders table alone; and the cycle passes its barrier only when a query
\* has been made for every order it fetched.
C25_RepeatedPolling ==
    [][/\ CycleEnds =>
             \A i \in DOMAIN cycOrders :
                 (\/ ordersInfo[i] = NilInfo
                  \/ ordersInfo[i].Status \in {StatusRegistered, StatusProcessing}
                  \/ ordersInfo[i].Status = StatusProcessed /\ ~hist'.prev.ok)
                 => orders'[cycOrders[i].ID].status \in {StatusNew, StatusProcessing}
       /\ Fetches =>
             \A o \in DOMAIN orders :
                 orders[o].status \in {StatusNew, StatusProcessing}
                    => \E i \in DOMAIN cycOrders' : /\ cycOrders'[i].ID = o
                                                    /\ ordersInfo'[i] = NilInfo
                                                    /\ ~queried'[i]
       /\ (upc = "fanout" /\ upc' = "classify") =>
             \A i \in DOMAIN cycOrders : queried[i]]_vars

\* the second cycle has passed its barrier with a verdict for an order that
\* the first cycle had a PROCESSED verdict for and failed to settle, and
\* with one for an order the first cycle left PROCESSING
C25_Witness ==
    /\ cycles = 2
    /\ upc = "classify"
    /\ ~hist.prev.ok
    /\ \E i \in DOMAIN cycOrders :
          /\ cycOrders[i].ID \in hist.prev.processed
          /\ ordersInfo[i] # NilInfo
    /\ \E j \in DOMAIN cycOrders :
          /\ hist.fetched[j] = StatusProcessing
          /\ ordersInfo[j] # NilInfo

\* ---------------------------------------------------------------- C26
\* the place of a status in the progression NEW, PROCESSING, then INVALID or
\* PROCESSED
StatusRank(st) ==
    CASE st = StatusNew -> 0
      [] st = StatusProcessing -> 1
      [] st \in {StatusInvalid, StatusProcessed} -> 2

\* C26: every stored status is one of the four of the progression, and no
\* step moves the stored status of an order backwards: an order stays where
\* it is or moves from NEW to PROCESSING, INVALID or PROCESSED, or from
\* PROCESSING to INVALID or PROCESSED; an order stored PROCESSING is never
\* stored NEW again, whatever the authority answers next, and an order
\* stored INVALID or PROCESSED keeps its status.
C26_MonotonicStatus ==
    /\ [](\A o \in DOMAIN orders :
            orders[o].status \in {StatusNew, StatusProcessing, StatusInvalid, StatusProcessed})
    /\ [][\A o \in DOMAIN orders :
            /\ o \in DOMAIN orders'
            /\ StatusRank(orders'[o].status) >= StatusRank(orders[o].status)
            /\ orders[o].status = StatusProcessing => orders'[o].status # StatusNew
            /\ StatusRank(orders[o].status) = 2 => orders'[o].status = orders[o].status]_vars

\* the second cycle got REGISTERED for an order that the first cycle had
\* stored as PROCESSING, and its loop has passed the slot: the order is
\* stored PROCESSING
C26_Witness ==
    /\ cycles = 2
    /\ upc = "classify"
    /\ \E i \in DOMAIN cycOrders :
          /\ idx > i
          /\ hist.fetched[i] = StatusProcessing
          /\ ordersInfo[i].Status = StatusRegistered
          /\ orders[cycOrders[i].ID].status = StatusProcessing

\* ---------------------------------------------------------------- C27
\* C27: getOrderStatus has returned exactly when it has a result, and the
\* result is a verdict exactly when the last attempt was answered with 200
\* and a body that parses; a response with any other status code, a body
\* that does not parse, a transport failure on the last attempt and a
\* cancelled context all give an error.  The query itself writes nothing:
\* no table, no slot of ordersInfo, no order of the cycle.
C27_VerdictOnlyOnOK ==
    /\ [](/\ http.pc = "done" <=> http.result # "none"
          /\ http.result \in {"none", "info", "error"}
          /\ http.result = "info" <=>
                (http.pc = "done" /\ http.resp.code = StatusOK /\ http.resp.body = "json")
          /\ (http.pc = "done" /\ \/ http.resp.code # StatusOK
                                  \/ http.resp.body # "json") => http.result = "error")
    /\ [][/\ (~running /\ http.pc # "done" /\ http'.pc = "done") => http'.result = "error"
          /\ http' # http => UNCHANGED <<dbVars, cycOrders, ordersInfo, batch, hist>>]_vars

\* a query whose first attempt failed in the transport and whose second was
\* answered with 200 and a body that does not parse has returned an error
C27_Witness ==
    /\ http.pc = "done"
    /\ http.attempt = 1
    /\ http.resp.code = StatusOK
    /\ http.resp.body = "malformed"
    /\ http.result = "error"
    /\ running

\* ---------------------------------------------------------------- C28
\* no stored order is NEW or PROCESSING
NoneUnfinished ==
    \A o \in DOMAIN orders : orders[o].status \notin {StatusNew, StatusProcessing}

\* C28: the step in which update() is called while no stored order is NEW or
\* PROCESSING, or in which its GetUnfinishedOrders fails, ends the call: the
\* goroutine is back at the select, no query was started (no slot, no
\* request), no settlement was begun, and no table, no row lock and no
\* credit or debit has changed.
C28_EmptyCycleNoOp ==
    [][(cycles' # cycles /\ (NoneUnfinished \/ upc' # "fanout")) =>
          /\ upc' = "select"
          /\ cycOrders' = <<>>
          /\ ordersInfo' = <<>>
          /\ queried' = <<>>
          /\ batch' = <<>>
          /\ stx' = NoTx
          /\ http' = http
          /\ UNCHANGED <<users, orders, balance, withdrawal, rowLock, hist>>]_vars

\* update() has been called twice and one of the calls made both stored
\* orders PROCESSED: the other found no unfinished order, or failed to fetch
C28_Witness ==
    /\ cycles = 2
    /\ upc = "select"
    /\ hist.prev.ok
    /\ hist.prev.processed = {1, 2}
    /\ \A o \in DOMAIN orders : orders[o].status = StatusProcessed
    /\ hist.credited = [o \in OrderIDs |-> 1]

\* ---------------------------------------------------------------- C29
\* the step commits a credit of user u: the settlement of a cycle whose batch
\* holds an order of u, or an AddBalance call for u
CommitsCredit(u) ==
    \/ Commits /\ \E k \in DOMAIN batch : batch[k].UserID = u
    \/ \E p \in Clients : cpc[p] = "addcommit" /\ cpc'[p] = "done" /\ ctx[p].user = u

\* the step commits the Withdraw call of client p
CommitsWithdraw(p) == cpc[p] = "commit" /\ cpc'[p] = "done"

\* C29: a step that changes the balance row of a user commits a credit of
\* that user, and then current is greater than it was and withdrawn is what
\* it was, or commits a withdrawal of that user, and then current is less by
\* the sum of the withdrawal and withdrawn is greater by it; so the
\* ingestion of an order, the storing of a verdict that is not PROCESSED, a
\* read, a failed or uncommitted operation and an operation on another user
\* change no balance row of the user.
C29_BalanceFrame ==
    [][\A u \in DOMAIN balance :
          /\ u \in DOMAIN balance'
          /\ balance'[u] # balance[u] =>
                \/ /\ CommitsCredit(u)
                   /\ balance'[u].current > balance[u].current
                   /\ balance'[u].withdrawn = balance[u].withdrawn
                \/ \E p \in Clients :
                      /\ CommitsWithdraw(p)
                      /\ ctx[p].user = u
                      /\ ctx[p].sum >= 0
                      /\ balance'[u].current = balance[u].current - ctx[p].sum
                      /\ balance'[u].withdrawn = balance[u].withdrawn + ctx[p].sum]_vars

\* ---------------------------------------------------------------- C30
\* C30: the users with a balance row are the users; the step that adds a user
\* adds that user's balance row, with current 0 and withdrawn 0, and changes
\* no other row; no other step adds a balance row, and no step removes a
\* user or a balance row.  So the owner of every order, the user of every
\* Withdraw or AddBalance call in progress, of every AddBalance statement of
\* an open settlement and of every withdrawal record has a balance row.
C30_OneBalanceRowPerUser ==
    /\ [](/\ DOMAIN balance = users
          /\ \A o \in DOMAIN orders : orders[o].user_id \in DOMAIN balance
          /\ \A p \in Clients :
                cpc[p] \in InWithdrawTx \cup {"addcommit"} => ctx[p].user \in DOMAIN balance
          /\ \A k \in DOMAIN stx.stmts : stx.stmts[k].user \in DOMAIN balance
          /\ \A w \in withdrawal : w.user_id \in DOMAIN balance)
    /\ [][/\ users \subseteq users'
          /\ DOMAIN balance \subseteq DOMAIN balance'
          /\ \A u \in users' \ users :
                /\ u \notin DOMAIN balance
                /\ balance'[u] = [current |-> 0, withdrawn |-> 0]
                /\ \A v \in DOMAIN balance : balance'[v] = balance[v]
          /\ DOMAIN balance' # DOMAIN balance => DOMAIN balance' \ DOMAIN balance = users' \ users]_vars

\* two users are stored, and a credit and a withdrawal of one of them have
\* committed on that user's balance row
C30_Witness ==
    /\ users = UserIDs
    /\ \E u \in users :
          /\ hist.credits[u] > 0
          /\ hist.debits[u] > 0
          /\ balance[u].withdrawn = hist.debits[u]

\* ================================================================ per-order settlement
\* The Updater of internal/accrual: update() goes through the unfinished
\* orders one after the other; for each it queries the authority, stores the
\* classified order with UpdateOrder and, for a PROCESSED verdict, credits
\* the owner with AddBalance, each in a transaction of its own.

\* updateOrders: case <-ticker.C, and update() up to the start of its loop
PerOrderTick ==
    /\ upc = "select"
    /\ cycles < MaxCycles
    /\ cycles' = cycles + 1
    /\ \E ok \in CallOutcomes :
        LET os == GetUnfinishedOrders(orders)
        IN IF ~ok \/ Len(os) = 0
           THEN UNCHANGED <<upc, cycOrders, idx>>
           ELSE /\ upc' = "iterate"
                /\ cycOrders' = os
                /\ idx' = 1
    /\ tickerC' = 0
    /\ UNCHANGED <<dbVars, clientVars, running, ordersInfo, queried, batch, stx, hist, http,
                   luhn>>

\* one iteration of the loop up to the end of UpdateOrder: getOrderStatus
\* returns info (nil with an error), the switch, u.storage.UpdateOrder
PerOrderStore(info) ==
    /\ upc = "iterate"
    /\ idx <= Len(cycOrders)
    /\ info = NilInfo \/ running
    /\ LET o == Classify(cycOrders[idx], info)
       IN IF Failed(info)
          THEN /\ idx' = idx + 1
               /\ UNCHANGED <<orders, cycOrders, upc>>
          ELSE \E ok \in CallOutcomes :
                 IF ~ok
                 THEN /\ idx' = idx + 1
                      /\ UNCHANGED <<orders, cycOrders, upc>>
                 ELSE /\ orders' = UpdateOrderStmt(orders, o)
                      /\ cycOrders' = [cycOrders EXCEPT ![idx] = o]
                      /\ IF NeedsBalanceUpdate(info)
                         THEN upc' = "addbalance" /\ idx' = idx
                         ELSE upc' = upc /\ idx' = idx + 1
    /\ UNCHANGED <<users, balance, withdrawal, rowLock, clientVars, running, ordersInfo,
                   queried, batch, stx, cycles, hist, http, tickerC, luhn>>

\* the rest of the iteration for a PROCESSED verdict: u.storage.AddBalance,
\* whose error is logged
PerOrderAddBalance ==
    /\ upc = "addbalance"
    /\ LET o == cycOrders[idx]
           row == AddBalanceStmt(balance[o.UserID], o.Accrual)
       IN \E ok \in CallOutcomes :
             IF ok /\ BalanceChecks(row)
             THEN /\ balance' = [balance EXCEPT ![o.UserID] = row]
                  /\ hist' = [hist EXCEPT !.credited[o.ID] = @ + 1,
                                           !.credits[o.UserID] = @ + o.Accrual]
             ELSE UNCHANGED <<balance, hist>>
    /\ upc' = "iterate"
    /\ idx' = idx + 1
    /\ UNCHANGED <<users, orders, withdrawal, rowLock, clientVars, running, cycOrders,
                   ordersInfo, queried, batch, stx, cycles, http, tickerC,
                   luhn>>

\* the loop is over: update() returns
PerOrderReturn ==
    /\ upc = "iterate"
    /\ idx > Len(cycOrders)
    /\ Return(TRUE)
    /\ UNCHANGED <<dbVars, clientVars, running, cycles, hist, http, tickerC, luhn>>

PerOrderNext ==
    \/ \E u \in UserIDs : AddUser(u)
    \/ \E p \in Clients, u \in UserIDs, o \in OrderIDs : AddOrder(p, u, o)
    \/ Stop
    \/ Exit
    \/ PerOrderTick
    \/ \E info \in Verdicts \cup {NilInfo} : PerOrderStore(info)
    \/ PerOrderAddBalance
    \/ PerOrderReturn

\* the API's registration and ingestion beside the per-order Updater
SpecPerOrder == Init /\ [][PerOrderNext]_vars

\* ---------------------------------------------------------------- C31
\* C31: in the per-order variant every order stored PROCESSED, with a
\* positive accrual, has had its accrual credited once to its owner's
\* balance, except the order whose AddBalance call the Updater is about to
\* make.
C31_ProcessedIsCredited ==
    \A o \in DOMAIN orders :
        (/\ orders[o].status = StatusProcessed
         /\ orders[o].accrual > 0
         /\ ~(upc = "addbalance" /\ cycOrders[idx].ID = o))
        => hist.credited[o] = 1

\* ---------------------------------------------------------------- C32
\* the sum of the sums of the withdrawal records of S that belong to user u
RECURSIVE WithdrawnSum(_, _)
WithdrawnSum(S, u) ==
    IF S = {} THEN 0
    ELSE LET w == CHOOSE x \in S : TRUE
         IN (IF w.user_id = u THEN w.sum ELSE 0) + WithdrawnSum(S \ {w}, u)

\* the sum of the stored accruals of the orders among ids that belong to
\* user u and are stored PROCESSED
RECURSIVE ProcessedSum(_, _)
ProcessedSum(ids, u) ==
    IF ids = {} THEN 0
    ELSE LET o == CHOOSE x \in ids : TRUE
         IN (IF orders[o].user_id = u /\ orders[o].status = StatusProcessed
             THEN orders[o].accrual ELSE 0) + ProcessedSum(ids \ {o}, u)

\* C32: in every state of the tables, for every user, balance.withdrawn is
\* the sum of the user's withdrawal records and balance.current +
\* balance.withdrawn is the sum of the accruals of the user's orders stored
\* PROCESSED.
C32_LedgerConservation ==
    \A u \in DOMAIN balance :
        /\ balance[u].withdrawn = WithdrawnSum(withdrawal, u)
        /\ balance[u].current + balance[u].withdrawn = ProcessedSum(DOMAIN orders, u)

\* a user whose order was settled with accrual 2 has withdrawn 1 and holds 1
C32_Witness ==
    \E u \in users :
        /\ balance[u] = [current |-> 1, withdrawn |-> 1]
        /\ \E w \in withdrawal : w.user_id = u /\ w.sum = 1
        /\ \E o \in DOMAIN orders :
              orders[o] = [user_id |-> u, status |-> StatusProcessed, accrual |-> 2]

\* ---------------------------------------------------------------- C33
\* C33: a stored order with an accrual other than 0 is stored PROCESSED; no
\* step changes the accrual, or anything else, of an order stored
\* PROCESSED; and the step that stores a REGISTERED, PROCESSING or INVALID
\* verdict stores accrual 0 whatever accrual the verdict carries.
C33_AccrualOnlyWhenProcessed ==
    /\ [](\A o \in DOMAIN orders : orders[o].accrual # 0 => orders[o].status = StatusProcessed)
    /\ [][/\ \A o \in DOMAIN orders :
                orders[o].status = StatusProcessed => orders'[o] = orders[o]
          /\ \A i \in DOMAIN cycOrders :
                (StoresVerdict(i) /\ ordersInfo[i].Status \in
                                       {StatusRegistered, StatusProcessing, StatusInvalid})
                => /\ cycOrders'[i].Accrual = 0
                   /\ orders'[cycOrders[i].ID].accrual = 0]_vars

\* an INVALID verdict that carried accrual 1 is stored as INVALID with
\* accrual 0 while another order is stored PROCESSED with accrual 2
C33_Witness ==
    /\ upc = "classify"
    /\ \E i \in DOMAIN cycOrders :
          /\ idx > i
          /\ ordersInfo[i] = [Status |-> StatusInvalid, Accrual |-> 1]
          /\ orders[cycOrders[i].ID].status = StatusInvalid
          /\ orders[cycOrders[i].ID].accrual = 0
    /\ \E o \in DOMAIN orders : orders[o].status = StatusProcessed /\ orders[o].accrual = 2

\* ---------------------------------------------------------------- C34
\* C34: a Withdraw call for a negative sum changes no table: its read
\* changes nothing, it never gets past its insert into withdrawal, which
\* returns the error of the check on sum and ends the call with the tables
\* and the row locks as they were; so no withdrawal record has a negative
\* sum and no balance has a negative withdrawn.
C34_NegativeWithdrawRejected ==
    /\ [](/\ \A p \in Clients : cpc[p] \in {"setbal", "commit"} => ctx[p].sum >= 0
          /\ \A w \in withdrawal : w.sum >= 0
          /\ \A u \in DOMAIN balance : balance[u].withdrawn >= 0)
    /\ [][\A p \in Clients :
            /\ \A u \in UserIDs, n \in WithdrawNumbers, s \in Sums :
                  (WithdrawRead(p, u, n, s) /\ s < 0) => UNCHANGED dbVars
            /\ (cpc[p] = "insert" /\ ctx[p].sum < 0 /\ cpc'[p] # cpc[p]) =>
                  /\ cpc'[p] = "done"
                  /\ res'[p] = ErrCheckViolation
                  /\ UNCHANGED dbVars]_vars

\* a Withdraw call for a negative sum by a user whose balance is 2 has
\* returned the error of the check: the balance is 2 and no record is stored
C34_Witness ==
    \E p \in Clients, u \in users :
        /\ cpc[p] = "done"
        /\ res[p] = ErrCheckViolation
        /\ balance[u] = [current |-> 2, withdrawn |-> 0]
        /\ users = {u}
        /\ withdrawal = {}

\* ---------------------------------------------------------------- C35
\* the statuses the switch of update() has a case for
KnownStatuses == {StatusRegistered, StatusInvalid, StatusProcessing, StatusProcessed}

\* the slots of the running cycle that hold a verdict with another status
UnknownSlots ==
    {i \in DOMAIN cycOrders : ordersInfo[i] # NilInfo /\ ordersInfo[i].Status \notin KnownStatuses}

\* C35: the iteration of the loop over a slot whose verdict has a status the
\* switch has no case for leaves the orders table, every balance, the batch
\* and the order the cycle holds as they were; and when the cycle ends,
\* however its settlement went, that order is stored with the status it was
\* fetched with, NEW or PROCESSING, and accrual 0, and was never credited.
C35_UnknownStatusIgnored ==
    [][/\ (upc = "classify" /\ idx' = idx + 1 /\ idx \in UnknownSlots) =>
             /\ orders' = orders
             /\ balance' = balance
             /\ batch' = batch
             /\ cycOrders' = cycOrders
             /\ hist'.credits = hist.credits
       /\ CycleEnds =>
             \A i \in UnknownSlots :
                 /\ orders'[cycOrders[i].ID].status = hist.fetched[i]
                 /\ orders'[cycOrders[i].ID].status \in {StatusNew, StatusProcessing}
                 /\ orders'[cycOrders[i].ID].accrual = 0
                 /\ hist'.credited[cycOrders[i].ID] = 0]_vars

\* the loop has passed slot 1, whose verdict has a status without a case and
\* accrual 1, and has put the PROCESSED order of slot 2 into the batch:
\* order 1 is stored as it was fetched
C35_Witness ==
    /\ upc = "classify"
    /\ Len(cycOrders) = 2
    /\ idx = 3
    /\ 1 \in UnknownSlots
    /\ ordersInfo[1].Accrual = 1
    /\ Len(batch) = 1
    /\ orders[cycOrders[1].ID].status = StatusNew
    /\ orders[cycOrders[1].ID].accrual = 0

\* ---------------------------------------------------------------- C36
\* C36: once Stop() has returned, a tick taken at the select starts no cycle
\* and writes nothing to the store, the goroutine leaves the select only to
\* exit, and no step changes the row of an existing order or credits a
\* balance: a cycle found outside the select was in flight when Stop() was
\* called, and its remaining store calls fail on the cancelled context.
C36_NoWritesAfterStop ==
    [][~running =>
         /\ (upc = "select" /\ cycles' = cycles + 1) =>
               /\ upc' = "select"
               /\ UNCHANGED <<dbVars, cycOrders, ordersInfo, queried, idx, batch, stx>>
         /\ upc = "select" => upc' \in {"select", "exited"}
         /\ \A o \in DOMAIN orders : orders'[o] = orders[o]
         /\ hist'.credits = hist.credits
         /\ hist'.credited = hist.credited]_vars

\* Stop() has been called, the goroutine is at the select with every tick
\* taken, and the NEW order of a user with a balance row is still NEW with
\* nothing credited
C36_Witness ==
    /\ ~running
    /\ upc = "select"
    /\ cycles = MaxCycles
    /\ \E o \in DOMAIN orders :
          /\ orders[o].status = StatusNew
          /\ orders[o].user_id \in DOMAIN balance
    /\ \A u \in UserIDs : hist.credits[u] = 0

\* ---------------------------------------------------------------- settlement with the store available
\* the order the authority has finished: every request for it is answered
\* with PROCESSED and accrual 1
SettledOrder == CHOOSE o \in OrderIDs : \A p \in OrderIDs : p <= o

SettledVerdict == [Status |-> StatusProcessed, Accrual |-> 1]

\* updateOrders: case <-ticker.C, and update() up to the start of the fan-out,
\* with the fetch of the unfinished orders succeeding; the cycles are not
\* counted
TickAvailable ==
    /\ upc = "select"
    /\ running
    /\ LET os == GetUnfinishedOrders(orders)
       IN IF Len(os) = 0
          THEN UNCHANGED <<upc, cycOrders, ordersInfo, queried, idx, batch, stx, hist>>
          ELSE /\ upc' = "fanout"
               /\ cycOrders' = os
               /\ ordersInfo' = [i \in DOMAIN os |-> NilInfo]
               /\ queried' = [i \in DOMAIN os |-> FALSE]
               /\ hist' = [hist EXCEPT !.start = hist.credits,
                                        !.fetched = [i \in DOMAIN os |-> os[i].Status]]
               /\ UNCHANGED <<idx, batch, stx>>
    /\ tickerC' = 0
    /\ UNCHANGED <<dbVars, clientVars, running, cycles>>
    /\ UNCHANGED <<http, luhn>>

\* the goroutine of a slot, the authority answering for SettledOrder as said
\* and for another order with any verdict or none
QuerySettled(i, info) ==
    /\ Query(i, info)
    /\ cycOrders[i].ID = SettledOrder => info = SettledVerdict

\* one iteration of the loop over ordersInfo, its UpdateOrder call succeeding
ClassifyAvailable ==
    /\ ClassifyStep
    /\ LET info == ordersInfo[idx]
       IN (~Failed(info) /\ ~NeedsBalanceUpdate(info)) =>
             orders' = UpdateOrderStmt(orders, Classify(cycOrders[idx], info))

\* UpdateBalanceFromOrders up to the end of its loop over orders, Begin and
\* the UpdateOrder statements succeeding
SettleBeginAvailable ==
    /\ SettleBegin
    /\ Len(batch) > 0 => upc' = "settle"

SettleStep == (\E k \in 1..Cardinality(UserIDs) : SettleCredit(k)) \/ SettleCommit

SettleNext ==
    \/ \E u \in UserIDs : AddUser(u)
    \/ \E p \in Clients, u \in UserIDs, o \in OrderIDs : AddOrder(p, u, o)
    \/ TickAvailable
    \/ \E i \in 1..Cardinality(OrderIDs), info \in Verdicts \cup {NilInfo} : QuerySettled(i, info)
    \/ Wait
    \/ ClassifyAvailable
    \/ SettleBeginAvailable
    \/ SettleStep

\* the Updater is Running, its goroutines are scheduled, the ticker goes on
\* firing, and no call to the store fails for a reason of the store's
SettleFairness ==
    /\ WF_vars(TickAvailable)
    /\ WF_vars(\E i \in 1..Cardinality(OrderIDs), info \in Verdicts \cup {NilInfo} :
                   QuerySettled(i, info))
    /\ WF_vars(Wait)
    /\ WF_vars(ClassifyAvailable)
    /\ WF_vars(SettleBeginAvailable)
    /\ WF_vars(SettleStep)

SpecSettle == Init /\ [][SettleNext]_vars /\ SettleFairness

\* ---------------------------------------------------------------- C37
\* C37: with the Updater Running and the store available, an order for which
\* the authority answers PROCESSED in every cycle is eventually stored
\* PROCESSED and credited, whatever the authority answers for the other
\* orders.
C37_SettlementIndependence ==
    (SettledOrder \in DOMAIN orders)
        ~> (/\ SettledOrder \in DOMAIN orders
            /\ orders[SettledOrder].status = StatusProcessed
            /\ hist.credited[SettledOrder] = 1)

\* ---------------------------------------------------------------- termination
StopNext ==
    \/ \E u \in UserIDs : AddUser(u)
    \/ \E p \in Clients, u \in UserIDs, o \in OrderIDs : AddOrder(p, u, o)
    \/ UpdaterNext

\* a goroutine of the fan-out gets its answer or its error
QueryReturns ==
    \E i \in 1..Cardinality(OrderIDs), info \in Verdicts \cup {NilInfo} : Query(i, info)

\* a statement or the commit of UpdateBalanceFromOrders returns
SettleReturns ==
    (\E k \in 1..Cardinality(UserIDs) : SettleCredit(k)) \/ SettleFail \/ SettleCommit

\* the goroutines are scheduled and their calls return; the select of
\* updateOrders, which picks among its ready cases at random, does not pass
\* over a closed Done() for ever
StopFairness ==
    /\ WF_vars(Exit)
    /\ WF_vars(QueryReturns)
    /\ WF_vars(Wait)
    /\ WF_vars(ClassifyStep)
    /\ WF_vars(SettleBegin)
    /\ WF_vars(SettleReturns)

SpecStop == Init /\ [][StopNext]_vars /\ StopFairness

\* ---------------------------------------------------------------- C38
\* C38: once Stop() has been called the goroutine of updateOrders eventually
\* returns, and a cycle at the barrier of its fan-out, stopped or not,
\* eventually gets past it.
C38_TerminatesAfterStop ==
    /\ ~running ~> upc = "exited"
    /\ upc = "fanout" ~> upc # "fanout"

\* the goroutine has returned after Stop(), at least one tick was taken, and
\* an order is left NEW
C38_Witness ==
    /\ upc = "exited"
    /\ ~running
    /\ cycles >= 1
    /\ \E o \in DOMAIN orders : orders[o].status = StatusNew

\* ---------------------------------------------------------------- IsValidLuhn
\* longest string drawn from Bytes
MaxLuhnLen == 2

\* the bytes '0'..'9', and the bytes ' ' and 'C', which are not digits
Digits == 48..57
Bytes == Digits \cup {32, 67}

RECURSIVE StringsUpTo(_)
StringsUpTo(n) ==
    IF n = 0 THEN {<<>>}
    ELSE LET S == StringsUpTo(n - 1)
         IN S \cup {Append(t, c) : t \in {x \in S : Len(x) = n - 1}, c \in Bytes}

\* "79927398713"
SampleNumber == <<55, 57, 57, 50, 55, 51, 57, 56, 55, 49, 51>>

Numbers == StringsUpTo(MaxLuhnLen) \cup {SampleNumber}

\* the loop of IsValidLuhn from index i down to 0 (i counted from 1 here);
\* d is a byte, so number[i] - '0' and d * 2 wrap at 256
RECURSIVE LuhnSum(_, _, _)
LuhnSum(number, i, isSecond) ==
    IF i = 0 THEN 0
    ELSE LET c == (number[i] + 256 - 48) % 256
             d == IF isSecond THEN (c * 2) % 256 ELSE c
         IN (d \div 10) + (d % 10) + LuhnSum(number, i - 1, ~isSecond)

IsValidLuhn(number) == LuhnSum(number, Len(number), FALSE) % 10 = 0

InitLuhn ==
    /\ users = {}
    /\ orders = <<>>
    /\ balance = <<>>
    /\ withdrawal = {}
    /\ rowLock = [u \in UserIDs |-> NoLock]
    /\ cpc = [p \in Clients |-> "idle"]
    /\ ctx = [p \in Clients |-> IdleCall]
    /\ res = [p \in Clients |-> NoResult]
    /\ running = TRUE
    /\ upc = "select"
    /\ cycOrders = <<>>
    /\ ordersInfo = <<>>
    /\ queried = <<>>
    /\ idx = 0
    /\ batch = <<>>
    /\ stx = NoTx
    /\ cycles = 0
    /\ http = NoRequest
    /\ tickerC = 0
    /\ hist = InitHist
    /\ \E n \in Numbers : luhn = [number |-> n, called |-> FALSE, result |-> FALSE]

\* apiAddUserOrder: IsValidLuhn(string(b))
CallIsValidLuhn ==
    /\ ~luhn.called
    /\ luhn' = [luhn EXCEPT !.called = TRUE, !.result = IsValidLuhn(luhn.number)]
    /\ UNCHANGED <<dbVars, clientVars, updVars, http, tickerC, hist>>

LuhnNext == CallIsValidLuhn

SpecLuhn == InitLuhn /\ [][LuhnNext]_vars

\* ---------------------------------------------------------------- C39
\* the value of the digit that is k-th from the right, doubled when k is
\* even, with the digits of the product added up
LuhnTerm(number, k) ==
    LET v == number[Len(number) + 1 - k] - 48
        p == IF k % 2 = 0 THEN 2 * v ELSE v
    IN IF p > 9 THEN p - 9 ELSE p

RECURSIVE LuhnTotal(_, _)
LuhnTotal(number, k) == IF k = 0 THEN 0 ELSE LuhnTerm(number, k) + LuhnTotal(number, k - 1)

AllDigits(number) == \A i \in DOMAIN number : number[i] \in Digits

\* C39: IsValidLuhn returns true for a non-empty string of decimal digits
\* whose Luhn total is divisible by 10, and false for every other string:
\* a digit string with another total, the empty string, a string with a byte
\* that is not a digit.
C39_LuhnValidity ==
    luhn.called =>
        luhn.result = (/\ luhn.number # <<>>
                       /\ AllDigits(luhn.number)
                       /\ LuhnTotal(luhn.number, Len(luhn.number)) % 10 = 0)

\* on the non-empty strings of digits the function is the Luhn check
LuhnOnDigits ==
    (luhn.called /\ luhn.number # <<>> /\ AllDigits(luhn.number)) =>
        luhn.result = (LuhnTotal(luhn.number, Len(luhn.number)) % 10 = 0)

SampleAccepted == luhn = [number |-> SampleNumber, called |-> TRUE, result |-> TRUE]

\* ---------------------------------------------------------------- C40
\* C40: during the fan-out a step that changes ordersInfo changes one slot,
\* the one of the goroutine that finishes with it, and update() reads no
\* slot: it changes neither its orders nor its batch nor a stored order.
\* After the barrier ordersInfo stays as it is, the iteration over slot i
\* changes of all that only order i of the cycle, its row in the table or its
\* entry in the batch, and a committed settlement stores for every PROCESSED
\* slot the accrual of that slot in the row of that slot's order.
C40_SlotsAligned ==
    [][/\ upc = "fanout" =>
             /\ ordersInfo' # ordersInfo =>
                   \E i \in DOMAIN ordersInfo :
                       /\ ~queried[i] /\ queried'[i]
                       /\ \A j \in DOMAIN ordersInfo \ {i} :
                              ordersInfo'[j] = ordersInfo[j] /\ queried'[j] = queried[j]
             /\ cycOrders' = cycOrders
             /\ batch' = batch
             /\ \A o \in DOMAIN orders : orders'[o] = orders[o]
       /\ (upc \in {"classify", "settle"} /\ upc' # "select") => ordersInfo' = ordersInfo
       /\ (upc = "classify" /\ idx' = idx + 1) =>
             /\ \A j \in DOMAIN cycOrders \ {idx} : cycOrders'[j] = cycOrders[j]
             /\ cycOrders'[idx].ID = cycOrders[idx].ID
             /\ \A o \in DOMAIN orders \ {cycOrders[idx].ID} : orders'[o] = orders[o]
             /\ batch' # batch =>
                   /\ batch' = Append(batch, cycOrders'[idx])
                   /\ cycOrders'[idx].Accrual = ordersInfo[idx].Accrual
             /\ orders' # orders =>
                   orders'[cycOrders[idx].ID].status = cycOrders'[idx].Status
       /\ (SettlementEnds /\ hist'.prev.ok) =>
             \A i \in DOMAIN cycOrders :
                 ordersInfo[i].Status = StatusProcessed =>
                     /\ orders'[cycOrders[i].ID].accrual = ordersInfo[i].Accrual
                     /\ orders'[cycOrders[i].ID].status = StatusProcessed]_vars

\* the loop has passed both slots of a cycle whose verdicts differ: INVALID
\* in slot 1, PROCESSED with accrual 2 in slot 2; order 1 is stored INVALID
\* and the batch holds order 2 with accrual 2
C40_Witness ==
    /\ upc = "classify"
    /\ Len(cycOrders) = 2
    /\ idx = 3
    /\ ordersInfo[1] = [Status |-> StatusInvalid, Accrual |-> 0]
    /\ ordersInfo[2] = [Status |-> StatusProcessed, Accrual |-> 2]
    /\ orders[cycOrders[1].ID].status = StatusInvalid
    /\ Len(batch) = 1
    /\ batch[1].ID = cycOrders[2].ID
    /\ batch[1].Accrual = 2

====
